---- MODULE Spec2Model ----
(***************************************************************************)
(* Deterministic computation core of synth_engine: the signal fusion       *)
(* engine (fusion/fusion_engine.py), the natal/transit computer            *)
(* (compute/astrology.py, compute/astrology_timing.py) and the relational  *)
(* graph engine (graph/constellation.py, graph/bowen.py).                  *)
(*                                                                         *)
(* Python floats are modelled as exact rationals <<n, d>> with d > 0 in    *)
(* lowest terms; None is the pair <<0, 0>>, which is no rational.          *)
(***************************************************************************)
EXTENDS Integers, Sequences, FiniteSets, TLC

\* ------------------------------------------------------------------------
\* Exact rational arithmetic
\* ------------------------------------------------------------------------
Abs(x) == IF x < 0 THEN -x ELSE x

RECURSIVE GCD(_, _)
GCD(a, b) == IF b = 0 THEN a ELSE GCD(b, a % b)

R(n, d) ==
  LET s == IF d < 0 THEN -1 ELSE 1
      g == GCD(Abs(n), Abs(d))
  IN  <<(s * n) \div g, (s * d) \div g>>

None == <<0, 0>>
Zero == <<0, 1>>
One == <<1, 1>>
Half == <<1, 2>>

RAdd(a, b) ==
  LET g == GCD(a[2], b[2])
      l == (a[2] \div g) * b[2]
  IN  R(a[1] * (l \div a[2]) + b[1] * (l \div b[2]), l)

RNeg(a) == <<-a[1], a[2]>>
RSub(a, b) == RAdd(a, RNeg(b))

RMul(a, b) ==
  LET g1 == GCD(Abs(a[1]), b[2])
      g2 == GCD(Abs(b[1]), a[2])
  IN  R((a[1] \div g1) * (b[1] \div g2), (a[2] \div g2) * (b[2] \div g1))

\* a / b for b # 0
RDiv(a, b) == RMul(a, IF b[1] < 0 THEN <<-b[2], -b[1]>> ELSE <<b[2], b[1]>>)

RLe(a, b) ==
  LET g == GCD(a[2], b[2])
  IN  a[1] * (b[2] \div g) <= b[1] * (a[2] \div g)
RLt(a, b) == ~RLe(b, a)

RMax(a, b) == IF RLt(a, b) THEN b ELSE a
RMin(a, b) == IF RLt(b, a) THEN b ELSE a

In01(x) == RLe(Zero, x) /\ RLe(x, One)

\* ------------------------------------------------------------------------
\* fusion/fusion_engine.py
\* ------------------------------------------------------------------------
\* a clamp that forgets its upper limit
clamp_no_upper(x, lo, hi) == RMax(lo, x)

clamp(x, lo, hi) == RMax(lo, RMin(hi, x))

\* dict.get(key, default) on a field that may be absent
Get(v, default) == IF v = None THEN default ELSE v

EpsDen == 1000000000

\* s <= 1e-9, computed without forming s * 10^9
LeEps(s) == s[1] <= s[2] \div EpsDen

\* normalisation that does not floor negative weights at zero
normalize_weights_no_floor(w_user, w_timing, w_context) ==
  LET s == RAdd(RAdd(w_user, w_timing), w_context)
  IN  IF LeEps(s) THEN <<R(6, 10), R(2, 10), R(2, 10)>>
      ELSE <<RDiv(w_user, s), RDiv(w_timing, s), RDiv(w_context, s)>>

normalize_weights(w_user, w_timing, w_context) ==
  LET u == RMax(Zero, w_user)
      t == RMax(Zero, w_timing)
      c == RMax(Zero, w_context)
      s == RAdd(RAdd(u, t), c)
  IN  IF LeEps(s) THEN <<R(6, 10), R(2, 10), R(2, 10)>>
      ELSE <<RDiv(u, s), RDiv(t, s), RDiv(c, s)>>

\* a conversion that takes a reported 0 for an absent value
to01_from_0_100_zero_absent(v) ==
  IF v <= 0 THEN None ELSE clamp(R(v, 100), Zero, One)

\* a conversion that takes the value for a 0-10 score
to01_from_0_10(v) ==
  IF v < 0 THEN None ELSE clamp(R(v, 10), Zero, One)

\* v is an int, -1 standing for an absent key
to01_from_0_100(v) ==
  IF v < 0 THEN None ELSE clamp(R(v, 100), Zero, One)

LrBias == R(5, 100)
LrW == R(2, 100)
MaxTimingWeight == R(35, 100)

\* the bias nudge without its clamp
nudge_bias_unclamped(bias, err) == RAdd(bias, RMul(LrBias, err))

\* bias = clamp(bias + lr_bias * err, -0.25, 0.25)
nudge_bias(bias, err) ==
  clamp(RAdd(bias, RMul(LrBias, err)), R(-25, 100), R(25, 100))

\* an update that recomputes the user weight from the timing weight it was
\* given, before the nudge
update_state_model_user_first(current_model, timing_signal, stress_pred, stress_gt) ==
  LET w == normalize_weights(Get(current_model.w_user, R(60, 100)),
                             Get(current_model.w_timing, R(20, 100)),
                             Get(current_model.w_context, R(20, 100)))
      w_context == w[3]
      scale == Get(current_model.stress_scale, One)
      err == RSub(stress_gt, stress_pred)
      bias == nudge_bias(Get(current_model.stress_bias, Zero), err)
      w_user == clamp(RSub(RSub(One, w[2]), w_context), R(40, 100), R(90, 100))
      w_timing == clamp(RAdd(w[2], RMul(RMul(LrW, err), RSub(timing_signal, Half))),
                        R(5, 100), MaxTimingWeight)
      n == normalize_weights(w_user, w_timing, w_context)
  IN  [w_user |-> n[1], w_timing |-> n[2], w_context |-> n[3],
       stress_bias |-> bias, stress_scale |-> scale]

update_state_model_after_checkin(current_model, timing_signal, stress_pred, stress_gt) ==
  LET w == normalize_weights(Get(current_model.w_user, R(60, 100)),
                             Get(current_model.w_timing, R(20, 100)),
                             Get(current_model.w_context, R(20, 100)))
      w_context == w[3]
      bias0 == Get(current_model.stress_bias, Zero)
      scale == Get(current_model.stress_scale, One)
      err == RSub(stress_gt, stress_pred)
      bias == nudge_bias(bias0, err)
      centered == RSub(timing_signal, Half)
      w_timing == clamp(RAdd(w[2], RMul(RMul(LrW, err), centered)),
                        R(5, 100), MaxTimingWeight)
      w_user == clamp(RSub(RSub(One, w_timing), w_context), R(40, 100), R(90, 100))
      n == normalize_weights(w_user, w_timing, w_context)
  IN  [w_user |-> n[1], w_timing |-> n[2], w_context |-> n[3],
       stress_bias |-> bias, stress_scale |-> scale]

\* Inputs of build_state_from_sources.  A falsy argument (None or an empty
\* dict) has given = FALSE; an absent key is -1 (check-in ints, the default
\* of checkin.get), "absent" (source) or None (floats).
NoCheckin == [given |-> FALSE, stress |-> -1, sleep_quality |-> -1,
              mood |-> -1, energy |-> -1, source |-> "absent"]
NoContext == [given |-> FALSE, stress |-> None]
NoTiming == [given |-> FALSE, BIS |-> None, BAS |-> None, FFFS |-> None]

\* checkin.get("source", "user")
GetSource(checkin) == IF checkin.source = "absent" THEN "user" ELSE checkin.source

UncDirect ==
  [stress |-> R(30, 100), BIS |-> R(35, 100), BAS |-> R(45, 100),
   FFFS |-> R(40, 100), exec_load |-> R(40, 100), recovery |-> R(45, 100),
   affect_volatility |-> R(40, 100), rumination |-> R(40, 100),
   social_appetite |-> R(45, 100)]

UncInferred ==
  [stress |-> R(60, 100), BIS |-> R(60, 100), BAS |-> R(65, 100),
   FFFS |-> R(65, 100), exec_load |-> R(65, 100), recovery |-> R(65, 100),
   affect_volatility |-> R(65, 100), rumination |-> R(65, 100),
   social_appetite |-> R(65, 100)]

CalibrationQuestion == "Quick check: how stressed do you feel right now?"

build_state_from_sources(checkin, context_inferred, timing_priors, state_model) ==
  LET w == normalize_weights(Get(state_model.w_user, R(60, 100)),
                             Get(state_model.w_timing, R(20, 100)),
                             Get(state_model.w_context, R(20, 100)))
      w_user == w[1]
      w_timing == w[2]
      w_context == w[3]
      stress_bias == Get(state_model.stress_bias, Zero)
      stress_scale == Get(state_model.stress_scale, One)
      stress_gt == IF checkin.given THEN to01_from_0_100(checkin.stress) ELSE None
      sleep_q == IF checkin.given THEN to01_from_0_100(checkin.sleep_quality) ELSE None
      mood == IF checkin.given THEN to01_from_0_100(checkin.mood) ELSE None
      energy == IF checkin.given THEN to01_from_0_100(checkin.energy) ELSE None
      ctx_stress == IF context_inferred.given THEN Get(context_inferred.stress, Zero)
                    ELSE None
      tBIS == IF timing_priors.given THEN Get(timing_priors.BIS, Zero) ELSE Zero
      tBAS == IF timing_priors.given THEN Get(timing_priors.BAS, Zero) ELSE Zero
      tFFFS == IF timing_priors.given THEN Get(timing_priors.FFFS, Zero) ELSE Zero
      timing_term == RAdd(RMul(R(65, 100), tBIS), RMul(R(35, 100), tFFFS))
      base == RAdd(IF ctx_stress # None THEN RMul(w_context, ctx_stress) ELSE Zero,
                   RMul(w_timing, timing_term))
      stress0 == IF stress_gt # None THEN stress_gt ELSE clamp(base, Zero, One)
      stress_conf == IF stress_gt # None
                     THEN (IF GetSource(checkin) = "user"
                           THEN R(80, 100) ELSE R(65, 100))
                     ELSE R(45, 100)
      drivers == IF stress_gt # None
                 THEN <<[source |-> "checkin", value |-> stress_gt, weight |-> w_user]>>
                 ELSE (IF ctx_stress # None
                       THEN <<[source |-> "context", value |-> ctx_stress,
                               weight |-> w_context]>>
                       ELSE <<>>)
                      \o <<[source |-> "timing_astro", value |-> timing_term,
                            weight |-> w_timing]>>
      stress == clamp(RAdd(RMul(stress0, stress_scale), stress_bias), Zero, One)
      BIS == clamp(RAdd(RMul(R(65, 100), stress), RMul(R(35, 100), tBIS)), Zero, One)
      BAS == clamp(RAdd(RMul(R(70, 100), tBAS),
                        RMul(R(30, 100), Get(energy, Half))), Zero, One)
      FFFS == clamp(RAdd(RMul(R(60, 100), tFFFS), RMul(R(40, 100), stress)), Zero, One)
      exec_load == clamp(RAdd(RMul(R(60, 100), stress),
                              RMul(R(40, 100), RSub(One, Get(sleep_q, Half)))),
                         Zero, One)
      recovery == clamp(RMul(Get(sleep_q, Half),
                             RSub(One, RMul(R(6, 10), stress))), Zero, One)
      affect_volatility == clamp(RAdd(RMul(R(70, 100), stress),
                                      RMul(R(30, 100), RSub(One, Get(mood, Half)))),
                                 Zero, One)
      rumination == clamp(RAdd(RMul(R(75, 100), BIS), RMul(R(25, 100), stress)),
                          Zero, One)
      social_appetite == clamp(RAdd(RMul(R(60, 100), RSub(One, BIS)),
                                    RMul(R(40, 100), Get(energy, Half))), Zero, One)
  IN  [vector |-> [stress |-> stress, BIS |-> BIS, BAS |-> BAS, FFFS |-> FFFS,
                   exec_load |-> exec_load, recovery |-> recovery,
                   affect_volatility |-> affect_volatility,
                   rumination |-> rumination,
                   social_appetite |-> social_appetite],
       uncertainty |-> IF stress_gt # None THEN UncDirect ELSE UncInferred,
       drivers |-> drivers,
       calibration_questions |-> IF stress_gt # None THEN <<>>
                                 ELSE <<CalibrationQuestion>>,
       state_model_used |-> [w_user |-> w_user, w_timing |-> w_timing,
                             w_context |-> w_context, stress_bias |-> stress_bias,
                             stress_scale |-> stress_scale],
       confidence |-> stress_conf]

\* The dict arguments of build_state_from_sources as the caller finds them
\* after the call: a call that stores the weights it normalized and the
\* defaults it filled in back into the state model it was given
args_after_build_writeback(checkin, context_inferred, timing_priors, state_model) ==
  <<checkin, context_inferred, timing_priors,
    build_state_from_sources(checkin, context_inferred, timing_priors,
                             state_model).state_model_used>>

\* the function reads its arguments with .get and assigns to none of them
args_after_build(checkin, context_inferred, timing_priors, state_model) ==
  <<checkin, context_inferred, timing_priors, state_model>>

\* current_model after update_state_model_after_checkin: the function builds
\* a new dict and leaves the one it was given as it was
args_after_update(current_model, timing_signal, stress_pred, stress_gt) ==
  <<current_model>>

\* ------------------------------------------------------------------------
\* compute/astrology.py.  Longitudes, orbs and exact angles are integers in
\* tenths of a degree; strengths are rationals.
\* ------------------------------------------------------------------------
FullCircle == 3600

PLANETS ==
  <<"Sun", "Moon", "Mercury", "Venus", "Mars", "Jupiter", "Saturn",
    "Uranus", "Neptune", "Pluto">>

ANGLES == <<"ASC", "MC", "DSC", "IC">>

\* keys of {**planets, **angles}, in insertion order
OBJECTS == PLANETS \o ANGLES

ASPECTS ==
  <<[name |-> "conj", deg |-> 0], [name |-> "opp", deg |-> 1800],
    [name |-> "trine", deg |-> 1200], [name |-> "square", deg |-> 900],
    [name |-> "sextile", deg |-> 600]>>

wrap360(x) ==
  LET y == x % FullCircle
  IN  IF y < 0 THEN y + FullCircle ELSE y

ang_diff(a, b) ==
  LET d == Abs(wrap360(a) - wrap360(b)) % FullCircle
  IN  IF d <= FullCircle - d THEN d ELSE FullCircle - d

\* an emission test that leaves out the orb limit itself
within_orb_strict(orb, max_orb) == orb < max_orb

\* if orb <= max_orb
within_orb(orb, max_orb) == orb <= max_orb

aspect_strength(orb, max_orb) ==
  IF orb >= max_orb THEN Zero
  ELSE LET x == R(orb, max_orb)
       IN  RMul(RSub(One, x), RSub(One, x))

\* a sort key that ranks the weakest match first
EventKeyLt_weakest_first(e, f) ==
  \/ RLt(e.strength, f.strength)
  \/ e.strength = f.strength /\ e.orb < f.orb

\* sort key (-strength, orb): TRUE when e sorts strictly before f
EventKeyLt(e, f) ==
  \/ RLt(f.strength, e.strength)
  \/ e.strength = f.strength /\ e.orb < f.orb

\* list.sort(key=lambda e: (-e["strength"], e["orb"])): a stable sort, so
\* the element at index i lands after the elements that sort strictly
\* before it and the equal-keyed elements that precede it in the list.
SortEvents(s) ==
  LET n == Len(s)
      rank == [i \in 1..n |->
                 Cardinality({j \in 1..n :
                                \/ EventKeyLt(s[j], s[i])
                                \/ j < i /\ ~EventKeyLt(s[i], s[j])}) + 1] \o <<>>
      at == [r \in 1..n |-> CHOOSE i \in 1..n : rank[i] = r] \o <<>>
  IN  [r \in 1..n |-> s[at[r]]] \o <<>>

\* the index pairs i < j of the double loop, in loop order
NatalPairs ==
  LET n == Len(OBJECTS)
      grid == [k \in 1..(n * n) |-> <<((k - 1) \div n) + 1, ((k - 1) % n) + 1>>]
      ordered(p) == p[1] < p[2]
  IN  SelectSeq(grid, ordered)

\* one candidate per (pair, aspect), in loop order
NatalCandidates ==
  [k \in 1..(Len(NatalPairs) * Len(ASPECTS)) |->
     [a |-> NatalPairs[((k - 1) \div Len(ASPECTS)) + 1][1],
      b |-> NatalPairs[((k - 1) \div Len(ASPECTS)) + 1][2],
      asp |-> ((k - 1) % Len(ASPECTS)) + 1]]

compute_whole_sign_houses(asc_lon) ==
  LET sign_index == wrap360(asc_lon) \div 300
      h1_cusp == sign_index * 300
  IN  [i \in 1..12 |-> wrap360(h1_cusp + (i - 1) * 300)]

\* objs maps each name of OBJECTS to the longitude the ephemeris returned
natal_aspects(objs, max_orb) ==
  LET orbOf(c) == Abs(ang_diff(objs[OBJECTS[c.a]], objs[OBJECTS[c.b]])
                      - ASPECTS[c.asp].deg)
      hit(c) == within_orb(orbOf(c), max_orb)
      rec(c) == [a |-> OBJECTS[c.a], b |-> OBJECTS[c.b],
                 type |-> ASPECTS[c.asp].name,
                 exact_deg |-> ASPECTS[c.asp].deg,
                 orb |-> orbOf(c),
                 strength |-> aspect_strength(orbOf(c), max_orb)]
      hits == SelectSeq(NatalCandidates, hit)
  IN  SortEvents([k \in 1..Len(hits) |-> rec(hits[k])] \o <<>>)

compute_natal(objs, max_orb) ==
  [planets |-> [k \in 1..Len(PLANETS) |-> wrap360(objs[PLANETS[k]])],
   angles |-> [k \in 1..Len(ANGLES) |-> wrap360(objs[ANGLES[k]])],
   whole_sign |-> compute_whole_sign_houses(wrap360(objs["ASC"])),
   aspects |-> natal_aspects([o \in DOMAIN objs |-> wrap360(objs[o])], max_orb),
   aspect_max_orb_deg |-> max_orb]

\* ------------------------------------------------------------------------
\* compute/astrology_timing.py
\* ------------------------------------------------------------------------
\* one candidate per (transit body, natal point, aspect), in loop order
TransitCandidates ==
  [k \in 1..(Len(PLANETS) * Len(OBJECTS) * Len(ASPECTS)) |->
     [t |-> ((k - 1) \div (Len(OBJECTS) * Len(ASPECTS))) + 1,
      n |-> (((k - 1) \div Len(ASPECTS)) % Len(OBJECTS)) + 1,
      asp |-> ((k - 1) % Len(ASPECTS)) + 1]]

\* natal_objs: OBJECTS -> longitude; trans_objs: PLANETS -> longitude
detect_transit_events(natal_objs, trans_objs, orb, tier) ==
  LET orbOf(c) == Abs(ang_diff(trans_objs[PLANETS[c.t]], natal_objs[OBJECTS[c.n]])
                      - ASPECTS[c.asp].deg)
      hit(c) == within_orb(orbOf(c), orb)
      rec(c) == [tier |-> tier, transit |-> PLANETS[c.t], natal |-> OBJECTS[c.n],
                 aspect |-> ASPECTS[c.asp].name,
                 orb |-> orbOf(c),
                 strength |-> aspect_strength(orbOf(c), orb)]
      hits == SelectSeq(TransitCandidates, hit)
  IN  SortEvents([k \in 1..Len(hits) |-> rec(hits[k])] \o <<>>)

\* 1 - exp(-max(0, x)), kept symbolic in its argument
squash(x) == [one_minus_exp_neg |-> RMax(Zero, x)]

\* the sum of term(events[i]) for i in lo..hi
RECURSIVE SumTerms(_, _, _, _)
SumTerms(events, field, lo, hi) ==
  IF lo > hi THEN Zero
  ELSE IF lo = hi THEN events[lo][field]
  ELSE LET mid == (lo + hi) \div 2
       IN  RAdd(SumTerms(events, field, lo, mid),
                SumTerms(events, field, mid + 1, hi))

\* accumulators in which Jupiter counts on hard aspects only and a soft
\* Uranus or Pluto aspect counts like a hard one
prior_terms_hardness_swapped(e) ==
  LET t == e.transit
      s == e.strength
      hard == e.aspect \in {"conj", "square", "opp"}
      up == t \in {"Uranus", "Pluto"}
  IN  [BIS |-> RAdd(IF t = "Saturn"
                    THEN RMul(IF hard THEN R(8, 10) ELSE R(4, 10), s) ELSE Zero,
                    IF up THEN RMul(R(3, 10), s) ELSE Zero),
       BAS |-> RAdd(IF t = "Mars"
                    THEN RMul(IF hard THEN R(7, 10) ELSE R(4, 10), s) ELSE Zero,
                    IF t = "Jupiter" /\ hard THEN RMul(R(5, 10), s) ELSE Zero),
       FFFS |-> RAdd(IF t = "Mars"
                     THEN RMul(IF hard THEN R(6, 10) ELSE R(2, 10), s) ELSE Zero,
                     IF up THEN RMul(R(4, 10), s) ELSE Zero)]

\* what one event adds to the accumulators BIS, BAS and FFFS
prior_terms(e) ==
  LET t == e.transit
      s == e.strength
      hard == e.aspect \in {"conj", "square", "opp"}
      up == t \in {"Uranus", "Pluto"} /\ hard
  IN  [BIS |-> RAdd(IF t = "Saturn"
                    THEN RMul(IF hard THEN R(8, 10) ELSE R(4, 10), s) ELSE Zero,
                    IF up THEN RMul(R(3, 10), s) ELSE Zero),
       BAS |-> RAdd(IF t = "Mars"
                    THEN RMul(IF hard THEN R(7, 10) ELSE R(4, 10), s) ELSE Zero,
                    IF t = "Jupiter" THEN RMul(R(5, 10), s) ELSE Zero),
       FFFS |-> RAdd(IF t = "Mars"
                     THEN RMul(IF hard THEN R(6, 10) ELSE R(2, 10), s) ELSE Zero,
                     IF up THEN RMul(R(4, 10), s) ELSE Zero)]

state_priors_from_transits(events) ==
  LET terms == [i \in 1..Len(events) |-> prior_terms(events[i])] \o <<>>
      n == Len(events)
  IN  [BIS |-> squash(SumTerms(terms, "BIS", 1, n)),
       BAS |-> squash(SumTerms(terms, "BAS", 1, n)),
       FFFS |-> squash(SumTerms(terms, "FFFS", 1, n))]

EventLimit == 50

\* a day list that is not cut
Truncate_keep_all(events) == events

\* (tight + medium)[:50]
Truncate(events) ==
  SubSeq(events, 1, IF Len(events) < EventLimit THEN Len(events) ELSE EventLimit)

\* tight + medium, before the truncation
day_detections(natal_objs, trans_objs, tight_orb, medium_orb) ==
  detect_transit_events(natal_objs, trans_objs, tight_orb, "tight")
    \o detect_transit_events(natal_objs, trans_objs, medium_orb, "medium")

HoursPerDay == 24

\* a date one day late
entry_date_next_day(start_utc, i) == (start_utc + HoursPerDay * (i + 1)) \div HoursPerDay

\* (start_utc + timedelta(days=i)).date(): instants are in hours, dates in days
entry_date(start_utc, i) == (start_utc + HoursPerDay * i) \div HoursPerDay

\* an iteration whose medium tier leaves out what the tight tier holds
window_day_disjoint_tiers(natal_objs, trans_objs, date, tight_orb, medium_orb) ==
  LET tight == detect_transit_events(natal_objs, trans_objs, tight_orb, "tight")
      medium == SelectSeq(detect_transit_events(natal_objs, trans_objs,
                                                medium_orb, "medium"),
                          LAMBDA e : e.orb > tight_orb)
      events == Truncate(tight \o medium)
  IN  [date |-> date, priors |-> state_priors_from_transits(events),
       events |-> events]

\* one iteration of the loop of compute_timing_window
window_day(natal_objs, trans_objs, date, tight_orb, medium_orb) ==
  LET tight == detect_transit_events(natal_objs, trans_objs, tight_orb, "tight")
      medium == detect_transit_events(natal_objs, trans_objs, medium_orb, "medium")
      events == Truncate(tight \o medium)
  IN  [date |-> date, priors |-> state_priors_from_transits(events),
       events |-> events]

\* ------------------------------------------------------------------------
\* graph/constellation.py.  A node's latent is a record: has_traits (has_state)
\* is FALSE when the "traits" ("state") entry is absent, None or empty, and a
\* value is None when its key is absent.  A graph G has nodes (the node ids in
\* insertion order), latent (per node), edges (a set of sets {u, v}; a
\* self-loop is {u}) and risk (per edge, None while conflict_risk is unset).
\* ------------------------------------------------------------------------
NoLatent == [has_traits |-> FALSE, N |-> None, has_state |-> FALSE,
             BIS |-> None, recovery |-> None]

\* the node ids in the order build_graph first meets them: the person_id of
\* each node, then the endpoints of each edge
node_order(nodes, edges) ==
  LET mentions == [i \in 1..Len(nodes) |-> nodes[i].person_id]
                    \o [i \in 1..(2 * Len(edges)) |->
                          IF i % 2 = 1 THEN edges[(i + 1) \div 2].from
                          ELSE edges[i \div 2].to]
      first == SelectSeq([i \in 1..Len(mentions) |-> i],
                         LAMBDA i : \A j \in 1..(i - 1) : mentions[j] # mentions[i])
  IN  [k \in 1..Len(first) |-> mentions[first[k]]]

build_graph(nodes, edges) ==
  LET order == node_order(nodes, edges)
      ids == {order[k] : k \in 1..Len(order)}
      listed(id) == {i \in 1..Len(nodes) : nodes[i].person_id = id}
      last(id) == CHOOSE i \in listed(id) : \A j \in listed(id) : j <= i
      es == {{edges[i].from, edges[i].to} : i \in 1..Len(edges)}
  IN  [nodes |-> order,
       latent |-> [id \in ids |-> IF listed(id) = {} THEN NoLatent
                                  ELSE nodes[last(id)].latent],
       edges |-> es,
       risk |-> [e \in es |-> None]]

edge_conflict_risk(a_lat, b_lat) ==
  LET aN == IF a_lat.has_traits THEN Get(a_lat.N, Half) ELSE Half
      bN == IF b_lat.has_traits THEN Get(b_lat.N, Half) ELSE Half
      aB == IF a_lat.has_state THEN Get(a_lat.BIS, Half) ELSE Half
      bB == IF b_lat.has_state THEN Get(b_lat.BIS, Half) ELSE Half
      r == RAdd(RMul(R(35, 100), RAdd(aN, bN)), RMul(R(25, 100), RAdd(aB, bB)))
  IN  RMin(One, RDiv(r, R(12, 10)))

\* the endpoints of an edge in one order: u is the endpoint met first
EdgeEnds(G, e) ==
  LET pos(x) == CHOOSE k \in 1..Len(G.nodes) : G.nodes[k] = x
      u == CHOOSE x \in e : \A y \in e : pos(x) <= pos(y)
      v == CHOOSE y \in e : e = {u, y}
  IN  <<u, v>>

annotate_edges(G) ==
  [G EXCEPT !.risk =
     [e \in G.edges |->
        edge_conflict_risk(G.latent[EdgeEnds(G, e)[1]], G.latent[EdgeEnds(G, e)[2]])]]

\* ------------------------------------------------------------------------
\* graph/bowen.py
\* ------------------------------------------------------------------------
differentiation_proxy(node_latent) ==
  LET N == IF node_latent.has_traits THEN Get(node_latent.N, Half) ELSE Half
      BIS == IF node_latent.has_state THEN Get(node_latent.BIS, Half) ELSE Half
      recovery == IF node_latent.has_state THEN Get(node_latent.recovery, Half)
                  ELSE Half
      dos == RAdd(RAdd(RMul(RSub(One, N), R(45, 100)),
                       RMul(RSub(One, BIS), R(35, 100))),
                  RMul(recovery, R(20, 100)))
  IN  RMax(Zero, RMin(One, dos))

has_edge(G, a, b) == {a, b} \in G.edges

\* a triangle risk that takes an edge without conflict_risk as fully risky
triangle_risk_unset_as_one(G, a, b, c) ==
  LET edge_risk(x, y) == Get(G.risk[{x, y}], One)
      r == RAdd(RAdd(edge_risk(a, b), edge_risk(a, c)), edge_risk(b, c))
  IN  RMin(One, RDiv(r, R(2, 1)))

triangle_risk(G, a, b, c) ==
  LET edge_risk(x, y) == Get(G.risk[{x, y}], Zero)
      r == RAdd(RAdd(edge_risk(a, b), edge_risk(a, c)), edge_risk(b, c))
  IN  RMin(One, RDiv(r, R(2, 1)))

RiskThreshold == R(4, 10)
TriangleLimit == 20

\* a retention test that also keeps a triangle whose risk is exactly 0.4
retained_inclusive(tr) == RLe(RiskThreshold, tr)

\* if tr > 0.4
retained(tr) == RLt(RiskThreshold, tr)

\* a ranking in ascending order of risk
TriangleKeyLt_ascending(e, f) == RLt(e.risk, f.risk)

\* sort key -risk: TRUE when e sorts strictly before f
TriangleKeyLt(e, f) == RLt(RNeg(e.risk), RNeg(f.risk))

\* triangles.sort(key=lambda x: -x["risk"]): a stable sort
SortTriangles(s) ==
  LET n == Len(s)
      rank == [i \in 1..n |->
                 Cardinality({j \in 1..n :
                                \/ TriangleKeyLt(s[j], s[i])
                                \/ j < i /\ ~TriangleKeyLt(s[i], s[j])}) + 1] \o <<>>
      at == [r \in 1..n |-> CHOOSE i \in 1..n : rank[i] = r] \o <<>>
  IN  [r \in 1..n |-> s[at[r]]] \o <<>>

\* the index triples i < j < k of the triple loop, in loop order
IndexTriples(n) ==
  LET grid == [m \in 1..(n * n * n) |->
                 <<((m - 1) \div (n * n)) + 1, (((m - 1) \div n) % n) + 1,
                   ((m - 1) % n) + 1>>]
  IN  SelectSeq(grid, LAMBDA t : t[1] < t[2] /\ t[2] < t[3])

compute_bowen(G) ==
  LET dos == [id \in DOMAIN G.latent |-> differentiation_proxy(G.latent[id])]
      nodes == G.nodes
      closed == SelectSeq(IndexTriples(Len(nodes)),
                  LAMBDA t : /\ has_edge(G, nodes[t[1]], nodes[t[2]])
                             /\ has_edge(G, nodes[t[1]], nodes[t[3]])
                             /\ has_edge(G, nodes[t[2]], nodes[t[3]]))
      scored == [m \in 1..Len(closed) |->
                   [a |-> nodes[closed[m][1]], b |-> nodes[closed[m][2]],
                    c |-> nodes[closed[m][3]],
                    risk |-> triangle_risk(G, nodes[closed[m][1]],
                                           nodes[closed[m][2]],
                                           nodes[closed[m][3]])]] \o <<>>
      triangles == SortTriangles(SelectSeq(scored, LAMBDA x : retained(x.risk)))
  IN  [differentiation_proxy |-> dos,
       triangles |-> SubSeq(triangles, 1,
                            IF Len(triangles) < TriangleLimit THEN Len(triangles)
                            ELSE TriangleLimit)]

\* ------------------------------------------------------------------------
\* Binary floating point.  A float is a rational with a significand of
\* FloatBits bits (53 in a Python float); every arithmetic result is rounded
\* to the nearest float, ties to the even significand.
\* ------------------------------------------------------------------------
FloatBits == 8

\* 2^k as a rational, for any integer k
Pow2(k) == IF k >= 0 THEN <<2 ^ k, 1>> ELSE <<1, 2 ^ (-k)>>

RECURSIVE ExponentFrom(_, _)
ExponentFrom(a, e) ==
  IF RLt(a, Pow2(e)) THEN ExponentFrom(a, e - 1)
  ELSE IF RLe(Pow2(e + 1), a) THEN ExponentFrom(a, e + 1)
  ELSE e

\* the e with 2^e <= a < 2^(e+1), for a > 0
Exponent(a) == ExponentFrom(a, 0)

RAbs(x) == <<Abs(x[1]), x[2]>>

\* r with the sign of x, for r >= 0
with_sign(x, r) == IF x[1] < 0 THEN RNeg(r) ELSE r

\* the integer nearest to q >= 0, ties to the even one
round_half_even(q) ==
  LET m == q[1] \div q[2]
      twice == 2 * (q[1] % q[2])
  IN  IF twice > q[2] \/ (twice = q[2] /\ m % 2 = 1) THEN m + 1 ELSE m

\* a > 0 with exponent e, rounded to a significand of FloatBits bits
round_at(a, e) ==
  RMul(RDiv(R(round_half_even(RMul(RDiv(a, Pow2(e)), Pow2(FloatBits - 1))), 1),
            Pow2(FloatBits - 1)),
       Pow2(e))

\* the float nearest to x
fl(x) ==
  IF x[1] = 0 THEN Zero ELSE with_sign(x, round_at(RAbs(x), Exponent(RAbs(x))))

\* a - trunc(a / y) * y for a >= 0, y > 0: fmod, which is exact
fmod(a, y) ==
  LET q == RDiv(a, y)
  IN  RSub(a, RMul(R(q[1] \div q[2], 1), y))

\* v + y if v < 0 else v, the sum rounded
add_if_negative(v, y) == IF v[1] < 0 THEN fl(RAdd(v, y)) ELSE v

\* x % y for floats, y > 0: fmod takes the sign of x, and a negative
\* remainder is brought up by y
float_rem(x, y) == add_if_negative(with_sign(x, fmod(RAbs(x), y)), y)

Deg360 == R(360, 1)

\* wrap360 on floats
wrap360_float(x) == add_if_negative(float_rem(x, Deg360), Deg360)

\* min(d, 360.0 - d)
min_with_explement(d) == RMin(d, fl(RSub(Deg360, d)))

\* ang_diff on floats
ang_diff_float(a, b) ==
  min_with_explement(
    float_rem(RAbs(fl(RSub(wrap360_float(a), wrap360_float(b)))), Deg360))

\* (w_user/s, w_timing/s, w_context/s), or the default weights for s <= 1e-9
divide_by_sum(u, t, c, s) ==
  IF LeEps(s) THEN <<fl(R(6, 10)), fl(R(2, 10)), fl(R(2, 10))>>
  ELSE <<fl(RDiv(u, s)), fl(RDiv(t, s)), fl(RDiv(c, s))>>

\* normalisation of weights that are already floored at zero
normalize_floored(u, t, c) == divide_by_sum(u, t, c, fl(RAdd(fl(RAdd(u, t)), c)))

\* normalisation on floats that does not floor negative weights at zero
normalize_weights_float_no_floor(w_user, w_timing, w_context) ==
  normalize_floored(w_user, w_timing, w_context)

\* normalize_weights on floats
normalize_weights_float(w_user, w_timing, w_context) ==
  normalize_floored(RMax(Zero, w_user), RMax(Zero, w_timing), RMax(Zero, w_context))

\* ------------------------------------------------------------------------
\* Bounds and input sets
\* ------------------------------------------------------------------------
MaxUpdates == 2

UserWeights == {None, R(-1, 5)}
TimingWeights == {None, Zero, R(13, 20)}
ContextWeights == {None, R(-1, 5), R(13, 20)}
BiasVals == {None, R(-1, 2), R(1, 5)}
ScaleVals == {None, R(2, 1)}

StateModels ==
  [w_user : UserWeights, w_timing : TimingWeights, w_context : ContextWeights,
   stress_bias : BiasVals, stress_scale : ScaleVals]

TimingSignals == {Zero, One}
StressVals == {Zero, One}

Checkins ==
  { NoCheckin,
    [given |-> TRUE, stress |-> 40, sleep_quality |-> 80, mood |-> 30,
     energy |-> 60, source |-> "user"],
    [given |-> TRUE, stress |-> 100, sleep_quality |-> -1, mood |-> -1,
     energy |-> 250, source |-> "device"],
    [given |-> TRUE, stress |-> 0, sleep_quality |-> 0, mood |-> 100,
     energy |-> -1, source |-> "absent"],
    [given |-> TRUE, stress |-> -1, sleep_quality |-> 20, mood |-> -1,
     energy |-> -1, source |-> "user"] }

Contexts ==
  { NoContext, [given |-> TRUE, stress |-> None],
    [given |-> TRUE, stress |-> R(7, 10)], [given |-> TRUE, stress |-> R(3, 1)] }

Timings ==
  { NoTiming,
    [given |-> TRUE, BIS |-> One, BAS |-> None, FFFS |-> Half],
    [given |-> TRUE, BIS |-> R(2, 1), BAS |-> R(-1, 1), FFFS |-> Zero] }

MaxDays == 2

\* the start instant and day count of a compute_timing_window call: from no
\* days (and a negative count) up to MaxDays, starting at various hours
WindowCalls ==
  {[start_utc |-> 23 + 7 * d, days |-> d] : d \in -1..MaxDays}

\* settings.aspect_max_orb_deg, timing_orb_tight, timing_orb_medium: the
\* defaults of config.py and a deployment that sets the first to 0
OrbSettings ==
  { [aspect_max_orb_deg |-> 30, timing_orb_tight |-> 15, timing_orb_medium |-> 30],
    [aspect_max_orb_deg |-> 0, timing_orb_tight |-> 15, timing_orb_medium |-> 30] }

Idx(name, seq) == CHOOSE i \in 1..Len(seq) : seq[i] = name

\* What the ephemeris returns for the points of names: point i lies spread
\* tenths of a degree after point i-1, the first k points are displaced by d1
\* and the others by d2.
Sky(names, spread, k, d1, d2) ==
  [o \in {names[i] : i \in 1..Len(names)} |->
     spread * (Idx(o, names) - 1) + (IF Idx(o, names) <= k THEN d1 ELSE d2)]

NatalSkies ==
  { Sky(OBJECTS, sp, k, d[1], d[2]) :
      sp \in {600, 170}, k \in {7}, d \in {<<0, 0>>, <<30, 0>>, <<0, 31>>} }

TransitSkies ==
  { Sky(PLANETS, sp, 4, d[1], d[2]) :
      sp \in {600, 170}, d \in {<<14, 200>>, <<16, 231>>} }
    \cup { Sky(PLANETS, 600, 4, 3600, 200), Sky(PLANETS, 170, 4, 15, 200) }

MaxNodes == 7

\* latents a caller may attach to a node: none, a trait value that puts a
\* triangle exactly on 0.4, in-range extremes, and out-of-range values
LatentProfiles ==
  { NoLatent,
    [has_traits |-> TRUE, N |-> R(1, 10), has_state |-> FALSE,
     BIS |-> None, recovery |-> None],
    [has_traits |-> TRUE, N |-> Zero, has_state |-> TRUE,
     BIS |-> Zero, recovery |-> One],
    [has_traits |-> TRUE, N |-> One, has_state |-> TRUE,
     BIS |-> One, recovery |-> None],
    [has_traits |-> TRUE, N |-> R(-1, 1), has_state |-> TRUE,
     BIS |-> Zero, recovery |-> R(-1, 1)],
    [has_traits |-> TRUE, N |-> R(3, 1), has_state |-> TRUE,
     BIS |-> Half, recovery |-> R(3, 1)] }

\* nodes 1..n, the first k with latent pa and the others with latent pb
NodeList(n, k, pa, pb) ==
  [i \in 1..n |-> [person_id |-> i, latent |-> IF i <= k THEN pa ELSE pb]]

\* every pair i < j of 1..n as an edge, in lexicographic order
CompleteEdges(n) ==
  LET grid == [m \in 1..(n * n) |->
                 [from |-> ((m - 1) \div n) + 1, to |-> ((m - 1) % n) + 1]]
  IN  SelectSeq(grid, LAMBDA e : e.from < e.to)

EdgeShapes == {"complete", "minus", "pendant", "extra"}

\* complete: all pairs; minus: all pairs but 1-2; pendant: node n hangs on
\* node n-1 only; extra: all pairs, then 2-1 again, a self-loop on 1 and an
\* edge to a node n+1 that is not in the node list
EdgeList(n, shape) ==
  IF shape = "complete" THEN CompleteEdges(n)
  ELSE IF shape = "minus"
  THEN SelectSeq(CompleteEdges(n), LAMBDA e : ~(e.from = 1 /\ e.to = 2))
  ELSE IF shape = "pendant"
  THEN CompleteEdges(n - 1) \o <<[from |-> n - 1, to |-> n]>>
  ELSE CompleteEdges(n) \o <<[from |-> 2, to |-> 1], [from |-> 1, to |-> 1],
                              [from |-> 1, to |-> n + 1]>>

\* ------------------------------------------------------------------------
\* State
\* ------------------------------------------------------------------------
VARIABLES
  model,      \* the subject's StateModel held by the caller
  nUpdates,   \* number of online updates applied so far
  fuseIn,     \* <<>> or <<arguments of the last build_state_from_sources call>>
  latent,     \* <<>> or <<its return value>>
  settings,   \* the orb settings of the deployment
  natalIn,    \* <<>> or <<longitudes the ephemeris gave compute_natal>>
  natal,      \* <<>> or <<return value of compute_natal>>
  start,      \* the start_utc argument of compute_timing_window, in hours
  days,       \* the days argument of compute_timing_window
  day_i,      \* the loop variable i of compute_timing_window
  out,        \* the list out of compute_timing_window
  detected,   \* per day of out: the ephemeris longitudes and tight + medium
              \* before the truncation
  window,     \* <<>> or <<return value of compute_timing_window>>
  graphIn,    \* the nodes and edges lists the caller supplies
  G,          \* <<>> or <<the graph build_graph returned>>, mutated in place
  annotated,  \* TRUE once annotate_edges has run on G
  bowen,      \* <<>> or <<return value of compute_bowen>>
  store,      \* the subject's StateModel row in the caller's store
  store0,     \* the row before either caller started
  locking,    \* TRUE when the callers take the per-subject mutex
  lockHolder, \* the caller that holds the mutex, 0 when it is free
  pc,         \* per caller: "start", "locked", "read", "written", "done"
  seen,       \* per caller: the model it read from the store
  updArgs,    \* per caller: the check-in figures of its update
  call,       \* <<>> or <<the last call of a fusion function: its name, its
              \* dict arguments before and after, and what it returned>>
  procs,      \* per server process: <<>> or <<its Settings object>>
  natalHash,  \* per server process: <<>> or <<the instant and place of its
              \* last compute_natal call and the inputs_hash returned>>
  num,        \* <<>> or <<a call of a numeric function on floats: its name,
              \* its arguments and, once it has returned, its results>>
  log,        \* the records of the Spiral JSONL file, oldest first
  now,        \* what time.time() returns, in hours
  ret,        \* <<>> or <<the last call on the log: an append_spiral_event
              \* or count_proposal_outcomes call and what it returned or
              \* raised, or a reader following the cursor of query_spiral
              \* with its arguments, the pages it got and the cursor it
              \* holds>>
  sess        \* <<>> or <<one agent session: the orchestrator result, the
              \* position of its stream generator and the events it yielded>>

fusionVars == <<model, nUpdates, fuseIn, latent>>
astroVars == <<settings, natalIn, natal, start, days, day_i, out, detected, window>>
graphVars == <<graphIn, G, annotated, bowen>>

raceVars == <<store, store0, locking, lockHolder, pc, seen, updArgs>>
frameVars == <<call>>
hashVars == <<procs, natalHash>>
numVars == <<num>>
spiralVars == <<log, now, ret, sess>>
extVars == <<raceVars, frameVars, hashVars, numVars, spiralVars>>

\* what the steps of the concurrent callers leave alone
notRace == <<fusionVars, astroVars, graphVars, frameVars, hashVars, numVars, spiralVars>>

vars == <<fusionVars, astroVars, graphVars, extVars>>

\* a subsystem that takes no part in a specification stays in its idle state
FusionIdle ==
  /\ model = [w_user |-> None, w_timing |-> None, w_context |-> None,
              stress_bias |-> None, stress_scale |-> None]
  /\ nUpdates = 0
  /\ fuseIn = <<>>
  /\ latent = <<>>

AstroIdle ==
  /\ settings = [aspect_max_orb_deg |-> 30, timing_orb_tight |-> 15,
                 timing_orb_medium |-> 30]
  /\ natalIn = <<>>
  /\ natal = <<>>
  /\ start = 0
  /\ days = 0
  /\ day_i = 0
  /\ out = <<>>
  /\ detected = <<>>
  /\ window = <<>>

GraphIdle ==
  /\ graphIn = [nodes |-> <<>>, edges |-> <<>>]
  /\ G = <<>>
  /\ annotated = FALSE
  /\ bowen = <<>>

Callers == {1, 2}

StoredDefault ==
  [w_user |-> R(60, 100), w_timing |-> R(20, 100), w_context |-> R(20, 100),
   stress_bias |-> Zero, stress_scale |-> One]

RaceIdle ==
  /\ store = StoredDefault
  /\ store0 = StoredDefault
  /\ locking = FALSE
  /\ lockHolder = 0
  /\ pc = [c \in Callers |-> "done"]
  /\ seen = [c \in Callers |-> StoredDefault]
  /\ updArgs = [c \in Callers |->
                  [timing_signal |-> Zero, stress_pred |-> Zero, stress_gt |-> Zero]]

FrameIdle == call = <<>>

Procs == {1, 2}

HashIdle ==
  /\ procs = [p \in Procs |-> <<>>]
  /\ natalHash = [p \in Procs |-> <<>>]

NumIdle == num = <<>>

SpiralIdle ==
  /\ log = <<>>
  /\ now = 1
  /\ ret = <<>>
  /\ sess = <<>>

ExtIdle == RaceIdle /\ FrameIdle /\ HashIdle /\ NumIdle /\ SpiralIdle

FusionInit ==
  /\ model \in StateModels
  /\ nUpdates = 0
  /\ fuseIn = <<>>
  /\ latent = <<>>

\* A behaviour is one subject's history: online updates, each fed the model
\* the previous one returned, and then one reading fused under that model.
UpdateStep ==
  /\ latent = <<>>
  /\ nUpdates < MaxUpdates
  /\ \E timing_signal \in TimingSignals, stress_pred \in StressVals,
        stress_gt \in StressVals :
       model' = update_state_model_after_checkin(model, timing_signal,
                                                 stress_pred, stress_gt)
  /\ nUpdates' = nUpdates + 1
  /\ UNCHANGED <<fuseIn, latent>>
  /\ UNCHANGED <<astroVars, graphVars, extVars>>

FuseStep ==
  /\ latent = <<>>
  /\ \E checkin \in Checkins, context_inferred \in Contexts,
        timing_priors \in Timings :
       /\ fuseIn' = <<[checkin |-> checkin, context_inferred |-> context_inferred,
                       timing_priors |-> timing_priors, state_model |-> model]>>
       /\ latent' = <<build_state_from_sources(checkin, context_inferred,
                                               timing_priors, model)>>
  /\ UNCHANGED <<model, nUpdates>>
  /\ UNCHANGED <<astroVars, graphVars, extVars>>

AstroInit ==
  /\ settings \in OrbSettings
  /\ natalIn = <<>>
  /\ natal = <<>>
  /\ \E c \in WindowCalls : start = c.start_utc /\ days = c.days
  /\ day_i = 0
  /\ out = <<>>
  /\ detected = <<>>
  /\ window = <<>>

\* compute_natal on the longitudes the ephemeris returns for the birth instant
NatalStep ==
  /\ natal = <<>>
  /\ \E sky \in NatalSkies :
       /\ natalIn' = <<sky>>
       /\ natal' = <<compute_natal(sky, settings.aspect_max_orb_deg)>>
  /\ UNCHANGED <<settings, start, days, day_i, out, detected, window>>
  /\ UNCHANGED <<fusionVars, graphVars, extVars>>

natal_objs(n) ==
  [o \in {OBJECTS[i] : i \in 1..Len(OBJECTS)} |->
     IF \E i \in 1..Len(PLANETS) : PLANETS[i] = o
     THEN n.planets[Idx(o, PLANETS)] ELSE n.angles[Idx(o, ANGLES)]]

\* compute_transits: the longitudes of the day, wrapped
compute_transits(sky) == [o \in DOMAIN sky |-> wrap360(sky[o])]

\* one iteration of the loop of compute_timing_window
WindowDayStep ==
  /\ natal # <<>>
  /\ window = <<>>
  /\ day_i < days
  /\ day_i' = day_i + 1
  /\ \E sky \in TransitSkies :
       LET trans == compute_transits(sky)
           nobjs == natal_objs(natal[1])
       IN  /\ out' = Append(out, window_day(nobjs, trans, entry_date(start, day_i),
                                            settings.timing_orb_tight,
                                            settings.timing_orb_medium))
           /\ detected' = Append(detected,
                 [sky |-> sky,
                  events |-> day_detections(nobjs, trans,
                                            settings.timing_orb_tight,
                                            settings.timing_orb_medium)])
  /\ UNCHANGED <<settings, natalIn, natal, start, days, window>>
  /\ UNCHANGED <<fusionVars, graphVars, extVars>>

\* the loop of compute_timing_window is over: return
WindowReturn ==
  /\ natal # <<>>
  /\ window = <<>>
  /\ day_i >= days
  /\ window' = <<[days |-> out,
                  policy |-> [tight_orb |-> settings.timing_orb_tight,
                              medium_orb |-> settings.timing_orb_medium]]>>
  /\ UNCHANGED <<settings, natalIn, natal, start, days, day_i, out, detected>>
  /\ UNCHANGED <<fusionVars, graphVars, extVars>>

GraphInit ==
  /\ \E n \in 3..MaxNodes, k \in {1, 3}, pa \in LatentProfiles,
        pb \in LatentProfiles, shape \in EdgeShapes :
       graphIn = [nodes |-> NodeList(n, k, pa, pb), edges |-> EdgeList(n, shape)]
  /\ G = <<>>
  /\ annotated = FALSE
  /\ bowen = <<>>

BuildGraph ==
  /\ G = <<>>
  /\ G' = <<build_graph(graphIn.nodes, graphIn.edges)>>
  /\ UNCHANGED <<graphIn, annotated, bowen>>
  /\ UNCHANGED <<fusionVars, astroVars, extVars>>

AnnotateEdges ==
  /\ G # <<>>
  /\ ~annotated
  /\ bowen = <<>>
  /\ G' = <<annotate_edges(G[1])>>
  /\ annotated' = TRUE
  /\ UNCHANGED <<graphIn, bowen>>
  /\ UNCHANGED <<fusionVars, astroVars, extVars>>

ComputeBowen ==
  /\ G # <<>>
  /\ bowen = <<>>
  /\ bowen' = <<compute_bowen(G[1])>>
  /\ UNCHANGED <<graphIn, G, annotated>>
  /\ UNCHANGED <<fusionVars, astroVars, extVars>>

\* ------------------------------------------------------------------------
\* Two callers of update_state_model_after_checkin on one subject.  Each
\* reads the stored StateModel, computes the update and writes the result
\* back; with locking they do so under the per-subject mutex.
\* ------------------------------------------------------------------------
StoredModels ==
  { StoredDefault,
    [w_user |-> R(50, 100), w_timing |-> R(30, 100), w_context |-> R(20, 100),
     stress_bias |-> R(1, 10), stress_scale |-> One] }

CheckinFigures ==
  [timing_signal : TimingSignals, stress_pred : StressVals, stress_gt : StressVals]

RaceInit ==
  /\ store \in StoredModels
  /\ store0 = store
  /\ locking \in BOOLEAN
  /\ lockHolder = 0
  /\ pc = [c \in Callers |-> "start"]
  /\ seen = [c \in Callers |-> StoredDefault]
  /\ updArgs \in [Callers -> CheckinFigures]

\* a mutex that any caller may pass
mutex_free_ignored(holder) == TRUE

mutex_free(holder) == holder = 0

Acquire(c) ==
  /\ locking
  /\ pc[c] = "start"
  /\ mutex_free(lockHolder)
  /\ lockHolder' = c
  /\ pc' = [pc EXCEPT ![c] = "locked"]
  /\ UNCHANGED <<store, store0, locking, seen, updArgs>>
  /\ UNCHANGED notRace

\* get_or_create_state_model: the caller reads the subject's row
ReadModel(c) ==
  /\ pc[c] = IF locking THEN "locked" ELSE "start"
  /\ seen' = [seen EXCEPT ![c] = store]
  /\ pc' = [pc EXCEPT ![c] = "read"]
  /\ UNCHANGED <<store, store0, locking, lockHolder, updArgs>>
  /\ UNCHANGED notRace

\* the caller computes the update from what it read and writes it back
UpdateAndWrite(c) ==
  /\ pc[c] = "read"
  /\ store' = update_state_model_after_checkin(seen[c], updArgs[c].timing_signal,
                                                updArgs[c].stress_pred,
                                                updArgs[c].stress_gt)
  /\ pc' = [pc EXCEPT ![c] = IF locking THEN "written" ELSE "done"]
  /\ UNCHANGED <<store0, locking, lockHolder, seen, updArgs>>
  /\ UNCHANGED notRace

Release(c) ==
  /\ pc[c] = "written"
  /\ lockHolder' = 0
  /\ pc' = [pc EXCEPT ![c] = "done"]
  /\ UNCHANGED <<store, store0, locking, seen, updArgs>>
  /\ UNCHANGED notRace

\* ------------------------------------------------------------------------
\* One caller that fuses readings and applies updates in any order, holding
\* the subject's StateModel dict in model.
\* ------------------------------------------------------------------------
FrameModels ==
  { [w_user |-> None, w_timing |-> None, w_context |-> None,
     stress_bias |-> None, stress_scale |-> None],
    [w_user |-> R(2, 1), w_timing |-> R(-1, 5), w_context |-> One,
     stress_bias |-> R(1, 5), stress_scale |-> None] }

FrameReadings ==
  { [checkin |-> NoCheckin, context_inferred |-> NoContext, timing_priors |-> NoTiming],
    [checkin |-> NoCheckin, context_inferred |-> [given |-> TRUE, stress |-> R(7, 10)],
     timing_priors |-> [given |-> TRUE, BIS |-> One, BAS |-> None, FFFS |-> Half]],
    [checkin |-> [given |-> TRUE, stress |-> 40, sleep_quality |-> 80, mood |-> 30,
                  energy |-> 60, source |-> "user"],
     context_inferred |-> NoContext,
     timing_priors |-> [given |-> TRUE, BIS |-> One, BAS |-> None, FFFS |-> Half]] }

FrameInit ==
  /\ model \in FrameModels
  /\ nUpdates = 0
  /\ fuseIn = <<>>
  /\ latent = <<>>
  /\ call = <<>>

\* build_state_from_sources(checkin, context_inferred, timing_priors, model)
FrameFuse ==
  /\ \E rd \in FrameReadings :
       LET before == <<rd.checkin, rd.context_inferred, rd.timing_priors, model>>
           result == build_state_from_sources(rd.checkin, rd.context_inferred,
                                              rd.timing_priors, model)
           after == args_after_build(rd.checkin, rd.context_inferred,
                                     rd.timing_priors, model)
       IN  /\ fuseIn' = <<[checkin |-> rd.checkin,
                           context_inferred |-> rd.context_inferred,
                           timing_priors |-> rd.timing_priors,
                           state_model |-> model]>>
           /\ latent' = <<result>>
           /\ model' = after[4]
           /\ call' = <<[fn |-> "build_state_from_sources", before |-> before,
                         after |-> after, returned |-> result.state_model_used]>>
  /\ UNCHANGED nUpdates
  /\ UNCHANGED <<astroVars, graphVars, raceVars, hashVars, numVars, spiralVars>>

\* model = update_state_model_after_checkin(model, ...): the caller adopts
\* the returned dict
FrameUpdate ==
  /\ nUpdates < MaxUpdates
  /\ \E fig \in CheckinFigures :
       LET returned == update_state_model_after_checkin(model, fig.timing_signal,
                                                        fig.stress_pred, fig.stress_gt)
       IN  /\ call' = <<[fn |-> "update_state_model_after_checkin",
                         before |-> <<model>>,
                         after |-> args_after_update(model, fig.timing_signal,
                                                     fig.stress_pred, fig.stress_gt),
                         returned |-> returned]>>
           /\ model' = returned
  /\ nUpdates' = nUpdates + 1
  /\ UNCHANGED <<fuseIn, latent>>
  /\ UNCHANGED <<astroVars, graphVars, raceVars, hashVars, numVars, spiralVars>>

\* ------------------------------------------------------------------------
\* config.py, utils/hashing.py and the inputs_hash of compute_natal.  A
\* server process builds its Settings object once, from its environment.
\* ------------------------------------------------------------------------
\* what secrets.token_urlsafe(48) may return
Tokens == {"token-a", "token-b"}

\* the environment of a process: SYNTH_JWT_SECRET ("" when unset) and the
\* orb settings
Environments == [jwt_secret : {"", "deployment-secret"}, orbs : OrbSettings]

\* Settings(): each field from the environment, else its default; the
\* default of jwt_secret is a fresh random token
Settings(env, token) ==
  [jwt_secret |-> IF env.jwt_secret = "" THEN token ELSE env.jwt_secret,
   free_chat_daily_limit |-> 10,
   zodiac |-> "tropical",
   house_systems |-> "P,WS",
   aspect_max_orb_deg |-> env.orbs.aspect_max_orb_deg,
   timing_orb_tight |-> env.orbs.timing_orb_tight,
   timing_orb_medium |-> env.orbs.timing_orb_medium]

\* the keys of a dumped Settings object and of the hashed dict, sorted
SettingsKeys ==
  <<"aspect_max_orb_deg", "free_chat_daily_limit", "house_systems", "jwt_secret",
    "timing_orb_medium", "timing_orb_tight", "zodiac">>

InputKeys == <<"cfg", "dt_utc", "lat", "lon">>

\* json.dumps(obj, sort_keys=True, default=str): the key/value pairs in key
\* order, a nested dict dumped the same way
json_dumps(obj, keys, nested) ==
  [k \in 1..Len(keys) |->
     <<keys[k], IF keys[k] = "cfg" THEN [j \in 1..Len(nested) |->
                                          <<nested[j], obj.cfg[nested[j]]>>]
                ELSE obj[keys[k]]>>]

\* sha256 is taken as free of collisions: the digest stands for the bytes
sha256_inputs(obj) == [sha256 |-> json_dumps(obj, InputKeys, SettingsKeys)]

\* compute_natal, line 80
inputs_hash(dt_utc, lat, lon, cfg) ==
  sha256_inputs([dt_utc |-> dt_utc, lat |-> lat, lon |-> lon, cfg |-> cfg])

Instants == {"2024-01-01T00:00:00+00:00", "2024-06-01T12:00:00+00:00"}
Latitudes == {0, 515}

StartProcess(p) ==
  /\ procs[p] = <<>>
  /\ \E env \in Environments, token \in Tokens :
       procs' = [procs EXCEPT ![p] = <<Settings(env, token)>>]
  /\ UNCHANGED natalHash
  /\ UNCHANGED <<fusionVars, astroVars, graphVars, raceVars, frameVars, numVars, spiralVars>>

NatalHash(p) ==
  /\ procs[p] # <<>>
  /\ \E dt_utc \in Instants, lat \in Latitudes :
       natalHash' = [natalHash EXCEPT ![p] =
                       <<[dt_utc |-> dt_utc, lat |-> lat, lon |-> 0,
                          inputs_hash |-> inputs_hash(dt_utc, lat, 0, procs[p][1])]>>]
  /\ UNCHANGED procs
  /\ UNCHANGED <<fusionVars, astroVars, graphVars, raceVars, frameVars, numVars, spiralVars>>

\* ------------------------------------------------------------------------
\* Calls of the numeric helpers on floats
\* ------------------------------------------------------------------------
\* longitudes a caller may pass: in range, on and past the ends of the
\* circle, and negative values far smaller than the spacing of floats at 360
AnyLongitudes ==
  {fl(x) : x \in {Zero, R(1, 2), R(90, 1), R(180, 1), R(359, 1), R(360, 1),
                   R(725, 1), R(-1, 1), R(-90, 1), R(-360, 1), R(-1, 1024),
                   R(-1, 1048576), R(1, 1024)}}

\* longitudes in [0, 360)
Longitudes ==
  {fl(x) : x \in {Zero, R(1, 1024), R(1, 2), R(3, 1), R(45, 1), R(90, 1),
                   R(135, 1), R(178, 1), R(180, 1), R(182, 1), R(270, 1),
                   R(300, 1), R(358, 1)}}

FloatWeights ==
  {fl(x) : x \in {Zero, R(1, 10), R(3, 10), R(13, 10), R(-1, 5), R(1, 2),
                   R(2, 1)}}

\* weights whose sum lies at or just above the 1e-9 threshold
TinyWeights == {fl(x) : x \in {Zero, R(-1, 5), R(1, 1073741824)}}

WeightTriples ==
  (FloatWeights \X FloatWeights \X FloatWeights)
    \cup (TinyWeights \X TinyWeights \X TinyWeights)

\* a call that has been made and has not returned yet
Pending(fn, args) == <<[fn |-> fn, args |-> args, done |-> FALSE]>>

PendingCalls ==
  {Pending("wrap360", <<x>>) : x \in AnyLongitudes}
    \cup {Pending("ang_diff", <<a, b>>) : a \in Longitudes, b \in Longitudes}
    \cup {Pending("normalize_weights", w) : w \in WeightTriples}

IsPending(fn) == num # <<>> /\ num[1].fn = fn /\ ~num[1].done

WrapCall ==
  /\ IsPending("wrap360")
  /\ num' = <<[fn |-> "wrap360", args |-> num[1].args, done |-> TRUE,
               result |-> wrap360_float(num[1].args[1])]>>
  /\ UNCHANGED <<fusionVars, astroVars, graphVars, raceVars, frameVars, hashVars, spiralVars>>

AngDiffCall ==
  /\ IsPending("ang_diff")
  /\ LET a == num[1].args[1]
         b == num[1].args[2]
     IN  num' = <<[fn |-> "ang_diff", args |-> num[1].args, done |-> TRUE,
                   result |-> ang_diff_float(a, b),
                   swapped |-> ang_diff_float(b, a)]>>
  /\ UNCHANGED <<fusionVars, astroVars, graphVars, raceVars, frameVars, hashVars, spiralVars>>

\* normalize_weights, and normalize_weights again on what it returned
NormalizeCall ==
  /\ IsPending("normalize_weights")
  /\ \E once \in {normalize_weights_float(num[1].args[1], num[1].args[2],
                                           num[1].args[3])} :
       num' = <<[fn |-> "normalize_weights", args |-> num[1].args, done |-> TRUE,
                 result |-> once,
                 again |-> normalize_weights_float(once[1], once[2], once[3])]>>
  /\ UNCHANGED <<fusionVars, astroVars, graphVars, raceVars, frameVars, hashVars, spiralVars>>

\* ------------------------------------------------------------------------
\* core/spiral_store.py, core/spiral_query.py
\* ------------------------------------------------------------------------
KNOWN_EVENT_KINDS ==
  {"proposals_offered", "proposal_accepted", "proposal_declined",
   "schedule_prompt", "passive_guidance_delivered", "briefing_completed",
   "read_aloud_completed", "manual_test", "reflection"}

\* An event dict: "absent" stands for a key the dict does not have (get
\* returns None), proposals is <<>> but in a proposals_offered event.
Event(kind, action) == [kind |-> kind, action |-> action, proposals |-> <<>>]

\* Python truth of event.get("kind"): None and "" are false
Truthy(v) == v \notin {"absent", ""}

\* if kind and kind not in KNOWN_EVENT_KINDS: raise ValueError
append_raises(event) == Truthy(event.kind) /\ event.kind \notin KNOWN_EVENT_KINDS

\* rec = {"ts": time.time(), "user_id": user_id, "event": event}; line is
\* the number of the line the record takes in the file
Record(file, ts, user_id, event) ==
  [line |-> Len(file) + 1, ts |-> ts, user_id |-> user_id, event |-> event]

\* the file after f.write(json.dumps(rec) + "\n") in append mode
append_spiral_event(file, ts, user_id, event) ==
  Append(file, Record(file, ts, user_id, event))

QueryTail == 5000
CountTail == 500

\* f.readlines()[-limit:], for limit > 0
iter_spiral(file, limit) ==
  SubSeq(file, IF Len(file) > limit THEN Len(file) - limit + 1 ELSE 1, Len(file))

\* The loop of query_spiral from record k of recs downwards; kinds = {} is
\* kinds_set = None, cursor is <<>> for None and <<ts>> otherwise.
RECURSIVE scan_query(_, _, _, _, _, _, _)
scan_query(recs, k, user_id, kinds, limit, cursor, results) ==
  IF k = 0 THEN [events |-> results, next_cursor |-> <<>>]
  ELSE IF \/ (cursor # <<>> /\ recs[k].ts >= cursor[1])
          \/ recs[k].user_id # user_id
          \/ (kinds # {} /\ recs[k].event.kind \notin kinds)
       THEN scan_query(recs, k - 1, user_id, kinds, limit, cursor, results)
       ELSE IF Len(results) + 1 >= limit
            THEN [events |-> Append(results, recs[k]),
                  next_cursor |-> <<recs[k].ts>>]
            ELSE scan_query(recs, k - 1, user_id, kinds, limit, cursor,
                            Append(results, recs[k]))

query_spiral(file, user_id, kinds, limit, cursor) ==
  scan_query(iter_spiral(file, QueryTail), Len(iter_spiral(file, QueryTail)),
             user_id, kinds, limit, cursor, <<>>)

\* The loop of count_proposal_outcomes from record k of recs downwards.
RECURSIVE scan_outcomes(_, _, _, _, _, _, _)
scan_outcomes(recs, k, user_id, action, lookback, accepts, declines) ==
  IF k = 0
  THEN [accepts |-> accepts, declines |-> declines, total |-> accepts + declines]
  ELSE IF recs[k].user_id # user_id \/ recs[k].event.action # action
       THEN scan_outcomes(recs, k - 1, user_id, action, lookback, accepts, declines)
       ELSE IF recs[k].event.kind = "proposal_accepted"
            THEN IF accepts + 1 + declines >= lookback
                 THEN [accepts |-> accepts + 1, declines |-> declines,
                       total |-> accepts + 1 + declines]
                 ELSE scan_outcomes(recs, k - 1, user_id, action, lookback,
                                    accepts + 1, declines)
            ELSE IF recs[k].event.kind = "proposal_declined"
                 THEN IF accepts + declines + 1 >= lookback
                      THEN [accepts |-> accepts, declines |-> declines + 1,
                            total |-> accepts + declines + 1]
                      ELSE scan_outcomes(recs, k - 1, user_id, action, lookback,
                                         accepts, declines + 1)
                 ELSE IF accepts + declines >= lookback
                      THEN [accepts |-> accepts, declines |-> declines,
                            total |-> accepts + declines]
                      ELSE scan_outcomes(recs, k - 1, user_id, action, lookback,
                                         accepts, declines)

count_proposal_outcomes(file, user_id, action, lookback) ==
  scan_outcomes(iter_spiral(file, CountTail), Len(iter_spiral(file, CountTail)),
                user_id, action, lookback, 0, 0)

\* ------------------------------------------------------------------------
\* The Spiral log: callers
\* ------------------------------------------------------------------------
MaxLog == 3

Users == {"u1", "u2"}

\* events callers append: outcomes of proposals, a reflection, an event of
\* a kind nobody registered, and log_event arguments without a kind
AppendEvents ==
  { Event("proposal_accepted", "schedule_prompt"),
    Event("proposal_declined", "schedule_prompt"),
    Event("reflection", "absent"),
    Event("unknown_kind", "absent"),
    Event("absent", "absent") }

KindFilters == {{}, {"proposal_accepted", "proposal_declined"}, {"reflection"}}
Limits == {0, 1, 2}
Lookbacks == {0, 1, 2}
OutcomeActions == {"schedule_prompt", "open_module"}

\* the clock may or may not have moved between two calls of time.time()
ClockSteps == {0, 1}

\* A behaviour is a history of appends followed by one reader: a run of
\* query_spiral pages or one count_proposal_outcomes call.
NoReader == IF ret = <<>> THEN TRUE ELSE ret[1].fn = "append_spiral_event"

\* append_spiral_event(user_id, event)
AppendEvent ==
  /\ sess = <<>>
  /\ NoReader
  /\ Len(log) < MaxLog
  /\ \E user_id \in Users, event \in AppendEvents, step \in ClockSteps :
       /\ IF append_raises(event)
          THEN /\ log' = log
               /\ now' = now
               /\ ret' = <<[fn |-> "append_spiral_event", raised |-> TRUE,
                            user_id |-> user_id, event |-> event,
                            before |-> log]>>
          ELSE /\ log' = append_spiral_event(log, now + step, user_id, event)
               /\ now' = now + step
               /\ ret' = <<[fn |-> "append_spiral_event", raised |-> FALSE,
                            user_id |-> user_id, event |-> event,
                            before |-> log]>>
  /\ UNCHANGED sess
  /\ UNCHANGED <<fusionVars, astroVars, graphVars, raceVars, frameVars, hashVars, numVars>>

\* events, next_cursor = query_spiral(user_id, kinds, limit): the first page
FirstPage ==
  /\ sess = <<>>
  /\ NoReader
  /\ log # <<>>
  /\ \E user_id \in Users, kinds \in KindFilters, limit \in Limits :
       \E page \in {query_spiral(log, user_id, kinds, limit, <<>>)} :
         ret' = <<[fn |-> "query_spiral", user_id |-> user_id, kinds |-> kinds,
                   limit |-> limit, pages |-> <<page.events>>,
                   cursor |-> page.next_cursor]>>
  /\ UNCHANGED <<log, now, sess>>
  /\ UNCHANGED <<fusionVars, astroVars, graphVars, raceVars, frameVars, hashVars, numVars>>

\* query_spiral(user_id, kinds, limit, cursor=next_cursor): the reader
\* follows the cursor while it is not None
IsWalk == ret # <<>> /\ ret[1].fn = "query_spiral"

NextPage ==
  /\ IsWalk
  /\ ret[1].cursor # <<>>
  /\ \E page \in {query_spiral(log, ret[1].user_id, ret[1].kinds,
                               ret[1].limit, ret[1].cursor)} :
       ret' = <<[ret[1] EXCEPT !.pages = Append(@, page.events),
                               !.cursor = page.next_cursor]>>
  /\ UNCHANGED <<log, now, sess>>
  /\ UNCHANGED <<fusionVars, astroVars, graphVars, raceVars, frameVars, hashVars, numVars>>

\* count_proposal_outcomes(user_id, action, lookback)
CountOutcomes ==
  /\ sess = <<>>
  /\ NoReader
  /\ log # <<>>
  /\ \E user_id \in Users, action \in OutcomeActions, lookback \in Lookbacks :
       ret' = <<[fn |-> "count_proposal_outcomes", user_id |-> user_id,
                 action |-> action, lookback |-> lookback,
                 result |-> count_proposal_outcomes(log, user_id, action, lookback)]>>
  /\ UNCHANGED <<log, now, sess>>
  /\ UNCHANGED <<fusionVars, astroVars, graphVars, raceVars, frameVars, hashVars, numVars>>

\* ------------------------------------------------------------------------
\* agency/guardrails.py, api/routes/agent_session.py
\* ------------------------------------------------------------------------
PassLevels == {"PASSIVE", "GUIDED", "ACTIVE"}

allowed_action_names(pass_level) ==
  IF pass_level = "PASSIVE" THEN <<"play_audio", "log_event">>
  ELSE IF pass_level = "GUIDED" THEN <<"open_module", "play_audio", "log_event">>
  ELSE <<"open_module", "play_audio", "log_event", "schedule_prompt",
         "import_gedcom", "import_csv", "preview_mesh">>

\* The loop of has_near_term_kairotic_window from window i on: best is <<>>
\* for None and <<w>> otherwise; a window is [start_ts |-> hours].
RECURSIVE nearest_window(_, _, _, _, _)
nearest_window(kairotic_windows, i, t, horizon, best) ==
  IF i > Len(kairotic_windows) THEN best
  ELSE IF /\ t <= kairotic_windows[i].start_ts
          /\ kairotic_windows[i].start_ts <= horizon
          /\ IF best = <<>> THEN TRUE
             ELSE kairotic_windows[i].start_ts < best[1].start_ts
       THEN nearest_window(kairotic_windows, i + 1, t, horizon,
                           <<kairotic_windows[i]>>)
       ELSE nearest_window(kairotic_windows, i + 1, t, horizon, best)

has_near_term_kairotic_window(kairotic_windows, t, within_hours) ==
  nearest_window(kairotic_windows, 1, t, t + within_hours, <<>>)

HandledLimit == 200
CooldownHours == 2
OutcomeLookback == 20

\* The loop of recently_handled_action from event i of the page on.
RECURSIVE handled_within(_, _, _, _, _)
handled_within(events, i, t, action, lookback) ==
  IF i > Len(events) THEN FALSE
  ELSE IF events[i].ts = 0
       THEN handled_within(events, i + 1, t, action, lookback)
       ELSE IF t - events[i].ts > lookback THEN FALSE
            ELSE IF events[i].event.action = action THEN TRUE
                 ELSE handled_within(events, i + 1, t, action, lookback)

recently_handled_action(file, t, user_id, action, cooldown) ==
  handled_within(query_spiral(file, user_id,
                              {"proposal_accepted", "proposal_declined"},
                              HandledLimit, <<>>).events,
                 1, t, action, cooldown)

RECURSIVE dedupe_from(_, _, _, _)
dedupe_from(proposals, i, seen_actions, kept) ==
  IF i > Len(proposals) THEN kept
  ELSE IF ~Truthy(proposals[i].action) \/ proposals[i].action \in seen_actions
       THEN dedupe_from(proposals, i + 1, seen_actions, kept)
       ELSE dedupe_from(proposals, i + 1, seen_actions \cup {proposals[i].action},
                        Append(kept, proposals[i]))

dedupe_proposals(proposals) == dedupe_from(proposals, 1, {}, <<>>)

\* a proposal dict: its action, requires_confirmation and, for
\* schedule_prompt, the window in args
Proposal(action, requires_confirmation, w) ==
  [action |-> action, requires_confirmation |-> requires_confirmation,
   window |-> w]

\* horizon_hours from the counted outcomes
schedule_horizon(accepts, declines) ==
  IF declines > accepts THEN 2 ELSE IF accepts > declines THEN 8 ELSE 6

\* horizon_hours as build_action_proposals computes it for a user
horizon_hours(file, user_id) ==
  schedule_horizon(
    count_proposal_outcomes(file, user_id, "schedule_prompt", OutcomeLookback).accepts,
    count_proposal_outcomes(file, user_id, "schedule_prompt", OutcomeLookback).declines)

BaseProposals ==
  <<Proposal("open_module", FALSE, <<>>), Proposal("play_audio", FALSE, <<>>),
    Proposal("log_event", FALSE, <<>>)>>

\* proposals after the kairotic step, for best = <<>> or <<w>>
with_schedule_prompt(pass_level, best, file, t, user_id) ==
  IF pass_level = "ACTIVE" /\ best # <<>>
  THEN IF /\ ~(best[1].start_ts > 0 /\ best[1].start_ts - t <= 1)
          /\ recently_handled_action(file, t, user_id, "schedule_prompt",
                                     CooldownHours)
       THEN BaseProposals
       ELSE Append(BaseProposals, Proposal("schedule_prompt", TRUE, best))
  ELSE BaseProposals

\* the general cooldown loop over proposals
refine(proposals, file, t, user_id) ==
  LET keeps(q) ==
        /\ Truthy(q.action)
        /\ \/ q.action \in {"open_module", "play_audio", "log_event"}
           \/ ~recently_handled_action(file, t, user_id, q.action, CooldownHours)
  IN  SelectSeq(proposals, keeps)

\* a build_action_proposals that offers schedule_prompt at every level but
\* PASSIVE
build_action_proposals_unlevelled(result, file, t, user_id) ==
  IF result.pass_level = "PASSIVE"
  THEN dedupe_proposals(<<Proposal("play_audio", FALSE, <<>>),
                          Proposal("log_event", FALSE, <<>>)>>)
  ELSE dedupe_proposals(
         refine(with_schedule_prompt("ACTIVE",
                  has_near_term_kairotic_window(result.kairotic_windows, t,
                                                horizon_hours(file, user_id)),
                  file, t, user_id),
                file, t, user_id))

build_action_proposals(result, file, t, user_id) ==
  IF result.pass_level = "PASSIVE"
  THEN dedupe_proposals(<<Proposal("play_audio", FALSE, <<>>),
                          Proposal("log_event", FALSE, <<>>)>>)
  ELSE dedupe_proposals(
         refine(with_schedule_prompt(result.pass_level,
                  has_near_term_kairotic_window(result.kairotic_windows, t,
                                                horizon_hours(file, user_id)),
                  file, t, user_id),
                file, t, user_id))

\* ------------------------------------------------------------------------
\* One agent session of a user with a history of proposal outcomes
\* ------------------------------------------------------------------------
SessionUser == "u1"

\* hours from the start of the session to the start of each kairotic window
WindowOffsets == {<<>>, <<1>>, <<3>>, <<7>>, <<7, 3>>}

\* chunks of 80 characters in the briefing summary
ChunkCounts == {0, 1}

\* hours between the last outcome and the session
Waits == {0, 3}

sse(event, data) == [event |-> event, data |-> data]

\* POST /agent/action/execute and /agent/action/decline of earlier sessions:
\* the user takes or declines a schedule_prompt proposal
Feedback ==
  /\ sess = <<>>
  /\ Len(log) < MaxLog
  /\ \E kind \in {"proposal_accepted", "proposal_declined"}, step \in ClockSteps :
       /\ now' = now + step
       /\ log' = append_spiral_event(log, now + step, SessionUser,
                                     Event(kind, "schedule_prompt"))
  /\ UNCHANGED <<ret, sess>>
  /\ UNCHANGED <<fusionVars, astroVars, graphVars, raceVars, frameVars, hashVars, numVars>>

\* agent_session is called and orchestrate returns its result
StartSession ==
  /\ sess = <<>>
  /\ \E pass_level \in PassLevels, offsets \in WindowOffsets,
        chunks \in ChunkCounts, wait \in Waits :
       /\ now' = now + wait
       /\ sess' = <<[result |->
                       [pass_level |-> pass_level,
                        kairotic_windows |->
                          [i \in 1..Len(offsets) |->
                             [start_ts |-> now + wait + offsets[i]]]],
                     chunks |-> chunks, pos |-> "start", cancel |-> "no",
                     events |-> <<>>, proposals |-> <<>>, next |-> 1,
                     horizon_hours |-> 0, logged |-> FALSE]>>
  /\ UNCHANGED <<log, ret>>
  /\ UNCHANGED <<fusionVars, astroVars, graphVars, raceVars, frameVars, hashVars, numVars>>

At(pos) == IF sess = <<>> THEN FALSE ELSE sess[1].pos = pos

\* POST /agent/session/{id}/cancel sets cancel_evt ("event"), or the client
\* goes away and request.is_disconnected() turns true ("disconnected")
CancelSession ==
  /\ sess # <<>>
  /\ ~At("done")
  /\ sess[1].cancel = "no"
  /\ \E how \in {"event", "disconnected"} :
       sess' = <<[sess[1] EXCEPT !.cancel = how]>>
  /\ UNCHANGED <<log, now, ret>>
  /\ UNCHANGED <<fusionVars, astroVars, graphVars, raceVars, frameVars, hashVars, numVars>>

\* the generator up to narration_start
OpenStream ==
  /\ At("start")
  /\ sess' = <<IF sess[1].cancel = "disconnected"
               THEN [sess[1] EXCEPT !.events = <<sse("cancelled", <<>>)>>,
                                    !.pos = "done"]
               ELSE [sess[1] EXCEPT !.events = <<sse("session", <<>>),
                                                 sse("narration_start", <<>>)>>,
                                    !.pos = "narration"]>>
  /\ UNCHANGED <<log, now, ret>>
  /\ UNCHANGED <<fusionVars, astroVars, graphVars, raceVars, frameVars, hashVars, numVars>>

\* one round of the loop over chunk_text(text, 80)
NarrationChunk ==
  /\ At("narration")
  /\ sess[1].chunks > 0
  /\ sess' = <<IF sess[1].cancel # "no"
               THEN [sess[1] EXCEPT !.events = Append(@, sse("cancelled", <<>>)),
                                    !.pos = "done"]
               ELSE [sess[1] EXCEPT !.events = Append(@, sse("narration_chunk", <<>>)),
                                    !.chunks = @ - 1]>>
  /\ UNCHANGED <<log, now, ret>>
  /\ UNCHANGED <<fusionVars, astroVars, graphVars, raceVars, frameVars, hashVars, numVars>>

NarrationEnd ==
  /\ At("narration")
  /\ sess[1].chunks = 0
  /\ sess' = <<[sess[1] EXCEPT !.events = Append(@, sse("narration_end", <<>>)),
                               !.pos = "ended"]>>
  /\ UNCHANGED <<log, now, ret>>
  /\ UNCHANGED <<fusionVars, astroVars, graphVars, raceVars, frameVars, hashVars, numVars>>

\* proposals = build_action_proposals(result, user_id), then the
\* proposals_offered append inside try/except: written tells whether the
\* write to the file succeeded
ProposeAndLog ==
  /\ At("ended")
  /\ \E proposals \in {build_action_proposals(sess[1].result, log, now, SessionUser)},
        written \in BOOLEAN :
       /\ sess' = <<[sess[1] EXCEPT
                       !.proposals = proposals,
                       !.horizon_hours =
                          IF sess[1].result.pass_level = "PASSIVE" THEN 0
                          ELSE horizon_hours(log, SessionUser),
                       !.logged = written,
                       !.pos = "proposing"]>>
       /\ log' = IF written
                 THEN append_spiral_event(log, now, SessionUser,
                        [kind |-> "proposals_offered", action |-> "absent",
                         proposals |-> proposals])
                 ELSE log
  /\ UNCHANGED <<now, ret>>
  /\ UNCHANGED <<fusionVars, astroVars, graphVars, raceVars, frameVars, hashVars, numVars>>

InSeq(x, seq) == \E i \in 1..Len(seq) : seq[i] = x

\* one round of: for p in proposals: if p["action"] in allow: yield ...
StreamProposal ==
  /\ At("proposing")
  /\ sess[1].next <= Len(sess[1].proposals)
  /\ sess' = <<IF InSeq(sess[1].proposals[sess[1].next].action,
                        allowed_action_names(sess[1].result.pass_level))
               THEN [sess[1] EXCEPT
                       !.events = Append(@, sse("action_proposal",
                                                <<sess[1].proposals[sess[1].next]>>)),
                       !.next = @ + 1]
               ELSE [sess[1] EXCEPT !.next = @ + 1]>>
  /\ UNCHANGED <<log, now, ret>>
  /\ UNCHANGED <<fusionVars, astroVars, graphVars, raceVars, frameVars, hashVars, numVars>>

Final ==
  /\ At("proposing")
  /\ sess[1].next > Len(sess[1].proposals)
  /\ sess' = <<[sess[1] EXCEPT !.events = Append(@, sse("final", <<>>)),
                               !.pos = "done"]>>
  /\ UNCHANGED <<log, now, ret>>
  /\ UNCHANGED <<fusionVars, astroVars, graphVars, raceVars, frameVars, hashVars, numVars>>

\* ------------------------------------------------------------------------
\* Specifications, one per component
\* ------------------------------------------------------------------------
Init == FusionInit /\ AstroIdle /\ GraphIdle /\ ExtIdle

Next == UpdateStep \/ FuseStep

Spec == Init /\ [][Next]_vars

InitAstro == AstroInit /\ FusionIdle /\ GraphIdle /\ ExtIdle

NextAstro == NatalStep \/ WindowDayStep \/ WindowReturn

SpecAstro == InitAstro /\ [][NextAstro]_vars

\* the loop variable advancing: what every WindowDayStep does to i
LoopAdvance ==
  /\ natal # <<>>
  /\ window = <<>>
  /\ day_i < days
  /\ day_i' = day_i + 1

\* compute_timing_window runs on: an iteration waits for nothing (the
\* ephemeris always answers), and neither does the return
SpecAstroFair == SpecAstro /\ WF_day_i(LoopAdvance) /\ WF_window(WindowReturn)

InitGraph == GraphInit /\ FusionIdle /\ AstroIdle /\ ExtIdle

NextGraph == BuildGraph \/ AnnotateEdges \/ ComputeBowen

SpecGraph == InitGraph /\ [][NextGraph]_vars

InitRace ==
  RaceInit /\ FusionIdle /\ AstroIdle /\ GraphIdle /\ FrameIdle /\ HashIdle /\ NumIdle
    /\ SpiralIdle

NextRace ==
  \E c \in Callers : Acquire(c) \/ ReadModel(c) \/ UpdateAndWrite(c) \/ Release(c)

SpecRace == InitRace /\ [][NextRace]_vars

InitFrame ==
  FrameInit /\ AstroIdle /\ GraphIdle /\ RaceIdle /\ HashIdle /\ NumIdle /\ SpiralIdle

NextFrame == FrameFuse \/ FrameUpdate

SpecFrame == InitFrame /\ [][NextFrame]_vars

InitHash ==
  HashIdle /\ FusionIdle /\ AstroIdle /\ GraphIdle /\ RaceIdle /\ FrameIdle /\ NumIdle
    /\ SpiralIdle

NextHash == \E p \in Procs : StartProcess(p) \/ NatalHash(p)

SpecHash == InitHash /\ [][NextHash]_vars

InitFloat ==
  num \in PendingCalls /\ FusionIdle /\ AstroIdle /\ GraphIdle /\ RaceIdle /\ FrameIdle
    /\ HashIdle /\ SpiralIdle

NextFloat == WrapCall \/ AngDiffCall \/ NormalizeCall

SpecFloat == InitFloat /\ [][NextFloat]_vars

InitSpiral ==
  SpiralIdle /\ FusionIdle /\ AstroIdle /\ GraphIdle /\ RaceIdle /\ FrameIdle /\ HashIdle
    /\ NumIdle

NextSpiral == AppendEvent \/ FirstPage \/ NextPage \/ CountOutcomes

SpecSpiral == InitSpiral /\ [][NextSpiral]_vars

NextSession ==
  \/ Feedback \/ StartSession \/ CancelSession \/ OpenStream \/ NarrationChunk
  \/ NarrationEnd \/ ProposeAndLog \/ StreamProposal \/ Final

SpecSession == InitSpiral /\ [][NextSession]_vars

\* ------------------------------------------------------------------------
\* Signal fusion engine: properties
\* ------------------------------------------------------------------------
NonNegSumOne(u, t, c) ==
  /\ RLe(Zero, u) /\ RLe(Zero, t) /\ RLe(Zero, c)
  /\ RAdd(RAdd(u, t), c) = One

\* C1: after any chain of update_state_model_after_checkin calls, from any
\* starting StateModel, the returned w_timing lies in [0.05, 0.35].
C1_TimingWeightInRange ==
  nUpdates > 0 =>
    /\ RLe(R(5, 100), model.w_timing)
    /\ RLe(model.w_timing, MaxTimingWeight)

\* C2: after any chain of update_state_model_after_checkin calls, the
\* returned stress_bias lies in [-0.25, 0.25].
C2_BiasInRange ==
  nUpdates > 0 =>
    /\ RLe(R(-25, 100), model.stress_bias)
    /\ RLe(model.stress_bias, R(25, 100))

\* an update has pulled an out-of-range stored bias back onto the lower limit
C2_Witness ==
  /\ nUpdates > 0
  /\ model.stress_bias = R(-25, 100)

C4_SelfReportWins ==
  (/\ latent # <<>>
   /\ fuseIn[1].checkin.given
   /\ fuseIn[1].checkin.stress \in 0..100
   /\ Get(fuseIn[1].state_model.stress_bias, Zero) = Zero
   /\ Get(fuseIn[1].state_model.stress_scale, One) = One)
  => /\ latent[1].vector.stress = R(fuseIn[1].checkin.stress, 100)
     /\ latent[1].confidence =
          IF GetSource(fuseIn[1].checkin) = "user" THEN R(80, 100) ELSE R(65, 100)

\* stress 40 reported by the user, fused with context and timing both present
\* under an adapted model
C4_Witness ==
  /\ latent # <<>>
  /\ nUpdates > 0
  /\ fuseIn[1].checkin.given
  /\ fuseIn[1].checkin.stress = 40
  /\ fuseIn[1].checkin.source = "user"
  /\ fuseIn[1].context_inferred.given
  /\ fuseIn[1].timing_priors.given
  /\ fuseIn[1].state_model.stress_bias = Zero
  /\ fuseIn[1].state_model.stress_scale = One
  /\ latent[1].vector.stress = R(40, 100)
  /\ latent[1].confidence = R(80, 100)

VectorKeys ==
  {"stress", "BIS", "BAS", "FFFS", "exec_load", "recovery",
   "affect_volatility", "rumination", "social_appetite"}

\* C9: each of the nine values of the fused vector lies in [0, 1], for
\* in-range and out-of-range inputs alike.
C9_VectorIn01 ==
  latent # <<>> =>
    /\ DOMAIN latent[1].vector = VectorKeys
    /\ \A k \in VectorKeys : In01(latent[1].vector[k])

\* out-of-range timing priors and context, held at the limits by the clamps
C9_Witness ==
  /\ latent # <<>>
  /\ fuseIn[1].timing_priors.given
  /\ fuseIn[1].timing_priors.BIS = R(2, 1)
  /\ fuseIn[1].timing_priors.BAS = R(-1, 1)
  /\ fuseIn[1].context_inferred.stress = R(3, 1)
  /\ fuseIn[1].state_model.stress_scale = R(2, 1)
  /\ latent[1].vector.BIS = One
  /\ latent[1].vector.BAS = Zero
  /\ latent[1].vector.stress = One

\* a self-reported stress value is available: a check-in with a stress entry
SelfReported == fuseIn[1].checkin.given /\ fuseIn[1].checkin.stress >= 0

DriverSources == {latent[1].drivers[k].source : k \in 1..Len(latent[1].drivers)}

\* C12: without a self-reported stress value, the stress drivers hold a
\* context entry iff an inferred context was supplied and a timing entry
\* iff timing priors were supplied.
C12_DriversListAvailable ==
  (latent # <<>> /\ ~SelfReported) =>
    /\ ("context" \in DriverSources) <=> fuseIn[1].context_inferred.given
    /\ ("timing_astro" \in DriverSources) <=> fuseIn[1].timing_priors.given

ResultKeys ==
  {"vector", "uncertainty", "drivers", "calibration_questions",
   "state_model_used", "confidence"}

IsNumber(x) == x[2] > 0

\* C13: for every combination of present and absent inputs and fields the
\* result is a complete LatentState; the confidence is 0.45 exactly when no
\* self-reported stress value is available, and the calibration question
\* list is non-empty exactly in that case.
C13_CompleteWithoutInputs ==
  latent # <<>> =>
    /\ DOMAIN latent[1] = ResultKeys
    /\ DOMAIN latent[1].vector = VectorKeys
    /\ DOMAIN latent[1].uncertainty = VectorKeys
    /\ \A k \in VectorKeys :
         IsNumber(latent[1].vector[k]) /\ IsNumber(latent[1].uncertainty[k])
    /\ \A f \in DOMAIN latent[1].state_model_used :
         IsNumber(latent[1].state_model_used[f])
    /\ IsNumber(latent[1].confidence)
    /\ (latent[1].confidence = R(45, 100)) <=> ~SelfReported
    /\ (latent[1].calibration_questions # <<>>) <=> ~SelfReported

\* a check-in without a stress entry and nothing else supplied, not even a
\* state model: the result is complete, with confidence 0.45 and a question
C13_Witness ==
  /\ latent # <<>>
  /\ fuseIn[1].state_model = [w_user |-> None, w_timing |-> None,
                               w_context |-> None, stress_bias |-> None,
                               stress_scale |-> None]
  /\ fuseIn[1].checkin.given
  /\ fuseIn[1].checkin.stress = -1
  /\ fuseIn[1].checkin.mood = -1
  /\ ~fuseIn[1].context_inferred.given
  /\ ~fuseIn[1].timing_priors.given
  /\ latent[1].confidence = R(45, 100)
  /\ latent[1].calibration_questions = <<CalibrationQuestion>>
  /\ latent[1].vector.stress = Zero
  /\ latent[1].state_model_used.w_user = R(6, 10)

\* ------------------------------------------------------------------------
\* Natal/transit computer: properties
\* ------------------------------------------------------------------------
AspectDeg(name) == ASPECTS[CHOOSE i \in 1..Len(ASPECTS) : ASPECTS[i].name = name].deg

\* the orb of a natal pair and of a transit contact, from the longitudes the
\* ephemeris returned
NatalOrb(a, b, deg) == Abs(ang_diff(natalIn[1][a], natalIn[1][b]) - deg)

TransitOrb(day, t, n, aspect) ==
  Abs(ang_diff(day.sky[t], natalIn[1][n]) - AspectDeg(aspect))

TierOf(events, tier) == SelectSeq(events, LAMBDA e : e.tier = tier)

\* the aspect list holds one entry for each (pair, aspect) within max_orb and
\* nothing else, each with its orb
NatalEmission(max_orb) ==
  LET asp == natal[1].aspects
      keys == {<<asp[k].a, asp[k].b, asp[k].type>> : k \in 1..Len(asp)}
  IN  /\ Cardinality(keys) = Len(asp)
      /\ \A k \in 1..Len(NatalCandidates) :
           LET c == NatalCandidates[k]
           IN  (NatalOrb(OBJECTS[c.a], OBJECTS[c.b], ASPECTS[c.asp].deg) <= max_orb)
                 <=> <<OBJECTS[c.a], OBJECTS[c.b], ASPECTS[c.asp].name>> \in keys
      /\ \A k \in 1..Len(asp) :
           asp[k].orb = NatalOrb(asp[k].a, asp[k].b, asp[k].exact_deg)

\* the same for the events one tier detected on a day
TransitEmission(day, tier, max_orb) ==
  LET ev == TierOf(day.events, tier)
      keys == {<<ev[k].transit, ev[k].natal, ev[k].aspect>> : k \in 1..Len(ev)}
  IN  /\ Cardinality(keys) = Len(ev)
      /\ \A k \in 1..Len(TransitCandidates) :
           LET c == TransitCandidates[k]
           IN  (TransitOrb(day, PLANETS[c.t], OBJECTS[c.n], ASPECTS[c.asp].name)
                  <= max_orb)
                 <=> <<PLANETS[c.t], OBJECTS[c.n], ASPECTS[c.asp].name>> \in keys
      /\ \A k \in 1..Len(ev) :
           ev[k].orb = TransitOrb(day, ev[k].transit, ev[k].natal, ev[k].aspect)

EmissionIffWithinOrb ==
  /\ natal # <<>> => NatalEmission(settings.aspect_max_orb_deg)
  /\ \A i \in 1..Len(detected) :
       /\ TransitEmission(detected[i], "tight", settings.timing_orb_tight)
       /\ TransitEmission(detected[i], "medium", settings.timing_orb_medium)

\* every emitted match of the model, with the orb limit it was matched under
EmittedWithLimit ==
  (IF natal = <<>> THEN {}
   ELSE {<<natal[1].aspects[k].orb, natal[1].aspects[k].strength,
           settings.aspect_max_orb_deg>> : k \in 1..Len(natal[1].aspects)})
  \cup UNION { {<<detected[i].events[k].orb, detected[i].events[k].strength,
                  IF detected[i].events[k].tier = "tight"
                  THEN settings.timing_orb_tight ELSE settings.timing_orb_medium>> :
                  k \in 1..Len(detected[i].events)} : i \in 1..Len(detected) }

\* C5 as stated: a match is emitted iff |d - e| <= max_orb; its strength is
\* exactly 1 at orb 0 and exactly 0 at orb = max_orb.
C5_OrbBoundary ==
  /\ EmissionIffWithinOrb
  /\ \A m \in EmittedWithLimit :
       /\ m[1] = 0 => m[2] = One
       /\ m[1] = m[3] => m[2] = Zero

\* C5 amended: a match is emitted iff |d - e| <= max_orb; its strength is
\* exactly 0 at orb = max_orb, and exactly 1 at orb 0 when max_orb > 0.
C5_OrbBoundaryPositive ==
  /\ EmissionIffWithinOrb
  /\ \A m \in EmittedWithLimit :
       /\ (m[1] = 0 /\ m[3] > 0) => m[2] = One
       /\ m[1] = m[3] => m[2] = Zero

\* a chart with an exact aspect and a pair just outside the limit, and a day
\* with a tight contact exactly on the tight limit
C5_Witness ==
  /\ natal # <<>>
  /\ settings.aspect_max_orb_deg = 30
  /\ \E k \in 1..Len(natal[1].aspects) :
       natal[1].aspects[k].orb = 0 /\ natal[1].aspects[k].strength = One
  /\ \E k \in 1..Len(NatalCandidates) :
       LET c == NatalCandidates[k]
       IN  NatalOrb(OBJECTS[c.a], OBJECTS[c.b], ASPECTS[c.asp].deg) = 31
  /\ detected # <<>>
  /\ \E k \in 1..Len(detected[1].events) :
       /\ detected[1].events[k].tier = "tight"
       /\ detected[1].events[k].orb = settings.timing_orb_tight
       /\ detected[1].events[k].orb = 15
       /\ detected[1].events[k].strength = Zero

\* C10: no event dropped by the truncation of a day's list is strictly
\* stronger than an event the list keeps.
C10_StrongestKept ==
  \A i \in 1..Len(out) :
    \A d \in (Len(out[i].events) + 1)..Len(detected[i].events) :
      \A r \in 1..Len(out[i].events) :
        ~RLt(out[i].events[r].strength, detected[i].events[d].strength)

\* the per-body sums of the claim: the strengths of the events of one body
\* and one hardness are added up, then weighted
StrengthSum(events, bodies, hardness) ==
  LET picked == SelectSeq(events,
                  LAMBDA e : /\ e.transit \in bodies
                             /\ (e.aspect \in {"conj", "square", "opp"}) \in hardness)
  IN  SumTerms(picked, "strength", 1, Len(picked))

ClaimedAccumulators(events) ==
  [BIS |-> RAdd(RAdd(RMul(R(8, 10), StrengthSum(events, {"Saturn"}, {TRUE})),
                     RMul(R(4, 10), StrengthSum(events, {"Saturn"}, {FALSE}))),
                RMul(R(3, 10), StrengthSum(events, {"Uranus", "Pluto"}, {TRUE}))),
   BAS |-> RAdd(RAdd(RMul(R(7, 10), StrengthSum(events, {"Mars"}, {TRUE})),
                     RMul(R(4, 10), StrengthSum(events, {"Mars"}, {FALSE}))),
                RMul(R(5, 10), StrengthSum(events, {"Jupiter"}, {TRUE, FALSE}))),
   FFFS |-> RAdd(RAdd(RMul(R(6, 10), StrengthSum(events, {"Mars"}, {TRUE})),
                      RMul(R(2, 10), StrengthSum(events, {"Mars"}, {FALSE}))),
                 RMul(R(4, 10), StrengthSum(events, {"Uranus", "Pluto"}, {TRUE})))]

\* descending strength, then ascending orb
RankedList(list) ==
  \A k \in 1..(Len(list) - 1) :
    /\ RLe(list[k + 1].strength, list[k].strength)
    /\ list[k + 1].strength = list[k].strength => list[k].orb <= list[k + 1].orb

\* C11: a day's event list has at most 50 entries, its tight events precede
\* its medium events, each tier is ordered by descending strength then
\* ascending orb, and the day's priors are those of this list.
C11_DayListShape ==
  \A i \in 1..Len(out) :
    LET ev == out[i].events
    IN  /\ Len(ev) <= EventLimit
        /\ \A a \in 1..Len(ev) : \A b \in 1..Len(ev) :
             (ev[a].tier = "tight" /\ ev[b].tier = "medium") => a < b
        /\ RankedList(TierOf(ev, "tight"))
        /\ RankedList(TierOf(ev, "medium"))
        /\ \A f \in {"BIS", "BAS", "FFFS"} :
             out[i].priors[f] = squash(ClaimedAccumulators(ev)[f])

\* a day with more than 50 detections: the list holds 50, of both tiers, and
\* its priors are not zero and not those of the uncut detections
C11_Witness ==
  \E i \in 1..Len(out) :
    /\ Len(detected[i].events) > EventLimit
    /\ Len(out[i].events) = EventLimit
    /\ out[i].events[1].tier = "tight"
    /\ out[i].events[EventLimit].tier = "medium"
    /\ \A f \in {"BIS", "BAS", "FFFS"} : out[i].priors[f] # squash(Zero)
    /\ \E f \in {"BIS", "BAS", "FFFS"} :
         out[i].priors[f] # squash(ClaimedAccumulators(detected[i].events)[f])

\* C18: the aspect list of compute_natal and each event list of
\* detect_transit_events is sorted by descending strength and, among equal
\* strengths, ascending orb; a smaller orb never has a smaller strength.
StrengthFallsWithOrb(list) ==
  \A a \in 1..Len(list) : \A b \in 1..Len(list) :
    list[a].orb < list[b].orb => RLe(list[b].strength, list[a].strength)

C18_SortedByStrength ==
  /\ natal # <<>> =>
       RankedList(natal[1].aspects) /\ StrengthFallsWithOrb(natal[1].aspects)
  /\ \A i \in 1..Len(detected) : \A tier \in {"tight", "medium"} :
       /\ RankedList(TierOf(detected[i].events, tier))
       /\ StrengthFallsWithOrb(TierOf(detected[i].events, tier))

Strengths(list) == {list[k].strength : k \in 1..Len(list)}

\* an aspect list and a tight event list that each hold several strengths,
\* the strongest first and the weakest last
C18_Witness ==
  /\ natal # <<>>
  /\ Cardinality(Strengths(natal[1].aspects)) >= 2
  /\ \E i \in 1..Len(detected) :
       LET tight == TierOf(detected[i].events, "tight")
       IN  /\ Cardinality(Strengths(tight)) >= 3
           /\ RLt(tight[Len(tight)].strength, tight[1].strength)

\* C20: the accumulators that state_priors_from_transits squashes are the
\* fixed per-body sums over the day's events (Saturn 0.8/0.4 to BIS, Mars
\* 0.7/0.4 to BAS and 0.6/0.2 to FFFS, Jupiter 0.5 to BAS, Uranus and Pluto
\* 0.4 to FFFS and 0.3 to BIS on hard aspects only); an empty list gives 0.
C20_PriorSums ==
  \A i \in 1..Len(out) :
    /\ out[i].priors = [f \in {"BIS", "BAS", "FFFS"} |->
                          squash(ClaimedAccumulators(out[i].events)[f])]
    /\ out[i].events = <<>> =>
         out[i].priors = [f \in {"BIS", "BAS", "FFFS"} |-> squash(Zero)]

HasEvent(events, body, hard) ==
  \E k \in 1..Len(events) :
    /\ events[k].transit = body
    /\ (events[k].aspect \in {"conj", "square", "opp"}) = hard
    /\ events[k].strength # Zero

\* a day whose list has hard and soft contacts of Saturn, Mars, Jupiter,
\* Uranus and Pluto and contacts of the Sun
C20_Witness ==
  \E i \in 1..Len(out) :
    /\ \A body \in {"Saturn", "Mars", "Jupiter", "Uranus", "Pluto", "Sun"} :
         HasEvent(out[i].events, body, TRUE) /\ HasEvent(out[i].events, body, FALSE)
    /\ \A f \in {"BIS", "BAS", "FFFS"} : out[i].priors[f] # squash(Zero)

\* ------------------------------------------------------------------------
\* Relational graph engine: properties
\* ------------------------------------------------------------------------
NodeIds == DOMAIN G[1].latent

\* the unordered triples of distinct nodes whose three pairwise edges exist
ClosedTriples ==
  {T \in SUBSET NodeIds :
     /\ Cardinality(T) = 3
     /\ \A x \in T : \A y \in T \ {x} : {x, y} \in G[1].edges}

\* clamp((sum of the three edge conflict risks)/2, 0, 1), an unset risk as 0
TripleRisk(T) ==
  LET x == CHOOSE n \in T : TRUE
      y == CHOOSE n \in T \ {x} : TRUE
      z == CHOOSE n \in T \ {x, y} : TRUE
      sum == RAdd(RAdd(Get(G[1].risk[{x, y}], Zero), Get(G[1].risk[{x, z}], Zero)),
                  Get(G[1].risk[{y, z}], Zero))
  IN  RMax(Zero, RMin(One, RDiv(sum, R(2, 1))))

Qualifying == {T \in ClosedTriples : RLt(R(4, 10), TripleRisk(T))}

EntryNodes(e) == {e.a, e.b, e.c}

\* C6: with at most 20 qualifying triangles, compute_bowen returns exactly
\* one entry per closed triple whose risk exceeds 0.4 and nothing else, with
\* that risk; every node has a differentiation_proxy entry, and a node in no
\* such triple is in no triangle.
C6_TrianglesExact ==
  (bowen # <<>> /\ annotated /\ Cardinality(Qualifying) <= TriangleLimit) =>
    LET tri == bowen[1].triangles
    IN  /\ Len(tri) = Cardinality(Qualifying)
        /\ {EntryNodes(tri[m]) : m \in 1..Len(tri)} = Qualifying
        /\ \A m \in 1..Len(tri) : tri[m].risk = TripleRisk(EntryNodes(tri[m]))
        /\ DOMAIN bowen[1].differentiation_proxy = NodeIds
        /\ \A n \in NodeIds :
             (\A T \in Qualifying : n \notin T)
               => \A m \in 1..Len(tri) : n \notin EntryNodes(tri[m])

\* four nodes, one complete triangle {1, 2, 3} and node 4 hanging on node 3:
\* one entry, and node 4 only in differentiation_proxy
C6_Witness ==
  /\ bowen # <<>>
  /\ annotated
  /\ Len(G[1].nodes) = 4
  /\ G[1].edges = {{1, 2}, {1, 3}, {2, 3}, {3, 4}}
  /\ Len(bowen[1].triangles) = 1
  /\ EntryNodes(bowen[1].triangles[1]) = {1, 2, 3}
  /\ bowen[1].triangles[1].risk = R(3, 4)
  /\ 4 \in DOMAIN bowen[1].differentiation_proxy

\* C7: the triangles list is in non-increasing order of risk and has at most
\* 20 entries, and no qualifying triangle left out is strictly riskier than
\* a returned one.
C7_RankedTop20 ==
  bowen # <<>> =>
    LET tri == bowen[1].triangles
        listed == {EntryNodes(tri[m]) : m \in 1..Len(tri)}
    IN  /\ Len(tri) <= TriangleLimit
        /\ \A m \in 1..(Len(tri) - 1) : RLe(tri[m + 1].risk, tri[m].risk)
        /\ \A T \in Qualifying \ listed :
             \A m \in 1..Len(tri) : RLe(TripleRisk(T), tri[m].risk)

\* more than 20 triangles qualify, 20 are returned with risks that differ,
\* and a weaker one is left out
C7_Witness ==
  /\ bowen # <<>>
  /\ annotated
  /\ Cardinality(Qualifying) > TriangleLimit
  /\ Len(bowen[1].triangles) = TriangleLimit
  /\ RLt(bowen[1].triangles[TriangleLimit].risk, bowen[1].triangles[1].risk)
  /\ \E T \in Qualifying :
       /\ \A m \in 1..TriangleLimit : EntryNodes(bowen[1].triangles[m]) # T
       /\ RLt(TripleRisk(T), bowen[1].triangles[TriangleLimit].risk)

\* clamp((0.35*(N_a+N_b) + 0.25*(BIS_a+BIS_b))/1.2, 0, 1), an absent N or
\* BIS taken as 0.5
ClaimedEdgeRisk(a_lat, b_lat) ==
  LET N(l) == IF l.has_traits /\ l.N # None THEN l.N ELSE Half
      B(l) == IF l.has_state /\ l.BIS # None THEN l.BIS ELSE Half
      r == RAdd(RMul(R(35, 100), RAdd(N(a_lat), N(b_lat))),
                RMul(R(25, 100), RAdd(B(a_lat), B(b_lat))))
  IN  RMax(Zero, RMin(One, RDiv(r, R(12, 10))))

\* C8: after annotate_edges every edge's conflict_risk equals the clamped
\* formula, lies in [0, 1], and is the same with the endpoints swapped.
C8_EdgeRiskClamped ==
  annotated =>
    \A e \in G[1].edges :
      LET u == EdgeEnds(G[1], e)[1]
          v == EdgeEnds(G[1], e)[2]
      IN  /\ G[1].risk[e] = ClaimedEdgeRisk(G[1].latent[u], G[1].latent[v])
          /\ In01(G[1].risk[e])
          /\ edge_conflict_risk(G[1].latent[v], G[1].latent[u]) = G[1].risk[e]

\* ------------------------------------------------------------------------
\* Concurrent callers: properties
\* ------------------------------------------------------------------------
UpdateOf(m, c) ==
  update_state_model_after_checkin(m, updArgs[c].timing_signal,
                                   updArgs[c].stress_pred, updArgs[c].stress_gt)

\* both updates, one after the other, in the two orders
SerialResults ==
  {UpdateOf(m, 2) : m \in {UpdateOf(store0, 1)}}
    \cup {UpdateOf(m, 1) : m \in {UpdateOf(store0, 2)}}

AllDone == \A c \in Callers : pc[c] = "done"

\* C14: under the per-subject mutex the final model is the result of both
\* updates in one of the two serial orders; without it the final model is
\* such a result or the update of one caller alone applied to the row both
\* callers read.
C14_SerialUnderMutex ==
  AllDone =>
    IF locking THEN store \in SerialResults
    ELSE store \in SerialResults \cup {UpdateOf(store0, 1), UpdateOf(store0, 2)}

\* without the mutex both callers read the same row, and the final model
\* holds the update of caller 2 alone: the update of caller 1, which changed
\* the row, is lost
C14_Witness ==
  /\ ~locking
  /\ AllDone
  /\ seen[1] = store0 /\ seen[2] = store0
  /\ UpdateOf(store0, 1) # store0
  /\ store = UpdateOf(store0, 2)
  /\ store \notin SerialResults

\* ------------------------------------------------------------------------
\* Frame of the fusion functions: properties
\* ------------------------------------------------------------------------
NextUpdateOf(m) ==
  [fig \in CheckinFigures |->
     update_state_model_after_checkin(m, fig.timing_signal, fig.stress_pred,
                                      fig.stress_gt)]

AstrologyConfig(cfg) ==
  [zodiac |-> cfg.zodiac, house_systems |-> cfg.house_systems,
   aspect_max_orb_deg |-> cfg.aspect_max_orb_deg,
   timing_orb_tight |-> cfg.timing_orb_tight,
   timing_orb_medium |-> cfg.timing_orb_medium]

\* C16: two compute_natal calls with the same instant, latitude, longitude
\* and astrology configuration return the same inputs_hash, in one process
\* or in two.
C16_HashOfInputsOnly ==
  \A p \in Procs : \A q \in Procs :
    (/\ natalHash[p] # <<>> /\ natalHash[q] # <<>>
     /\ natalHash[p][1].dt_utc = natalHash[q][1].dt_utc
     /\ natalHash[p][1].lat = natalHash[q][1].lat
     /\ natalHash[p][1].lon = natalHash[q][1].lon
     /\ AstrologyConfig(procs[p][1]) = AstrologyConfig(procs[q][1]))
    => natalHash[p][1].inputs_hash = natalHash[q][1].inputs_hash

\* ------------------------------------------------------------------------
\* Numeric helpers on floats: properties
\* ------------------------------------------------------------------------
\* C17: ang_diff(a, b) = ang_diff(b, a) and lies in [0, 180] for all a, b in
\* [0, 360), and wrap360 maps every input into [0, 360).
C17_AngDiffSymmetricWrapInRange ==
  (num # <<>> /\ num[1].done) =>
    /\ num[1].fn = "ang_diff" =>
         /\ num[1].result = num[1].swapped
         /\ RLe(Zero, num[1].result) /\ RLe(num[1].result, R(180, 1))
    /\ num[1].fn = "wrap360" =>
         RLe(Zero, num[1].result) /\ RLt(num[1].result, Deg360)

FloatFallback == <<fl(R(6, 10)), fl(R(2, 10)), fl(R(2, 10))>>

\* the floored inputs add up to at most 1e-9
SumAtMostEps(args) ==
  LeEps(RAdd(RAdd(RMax(Zero, args[1]), RMax(Zero, args[2])), RMax(Zero, args[3])))

\* C19 as stated: normalize_weights applied to its own output returns the
\* same triple, for every input triple; for a triple whose sum is at or
\* below epsilon both applications return (0.60, 0.20, 0.20).
C19_Idempotent ==
  (num # <<>> /\ num[1].fn = "normalize_weights" /\ num[1].done) =>
    /\ num[1].again = num[1].result
    /\ SumAtMostEps(num[1].args) =>
         num[1].result = FloatFallback /\ num[1].again = FloatFallback

\* four units in the last place of 1.0
RoundingTolerance == Pow2(3 - FloatBits)

Near(x, y) ==
  /\ RLe(RSub(x, y), RoundingTolerance)
  /\ RLe(RSub(y, x), RoundingTolerance)

\* C19 amended: normalize_weights applied to its own output returns the same
\* triple up to floating-point rounding; for a triple whose sum is at or
\* below epsilon both applications return (0.60, 0.20, 0.20).
C19_IdempotentUpToRounding ==
  (num # <<>> /\ num[1].fn = "normalize_weights" /\ num[1].done) =>
    /\ \A i \in 1..3 : Near(num[1].again[i], num[1].result[i])
    /\ SumAtMostEps(num[1].args) =>
         num[1].result = FloatFallback /\ num[1].again = FloatFallback

\* a triple with a positive sum whose second normalisation differs from the
\* first in the last place
C19_Witness ==
  /\ num # <<>>
  /\ num[1].fn = "normalize_weights"
  /\ num[1].done
  /\ ~SumAtMostEps(num[1].args)
  /\ num[1].again # num[1].result
  /\ \A i \in 1..3 : Near(num[1].again[i], num[1].result[i])

\* ------------------------------------------------------------------------
\* Timing window: length, dates, termination
\* ------------------------------------------------------------------------
WindowShape ==
  window # <<>> =>
    LET list == window[1].days
    IN  /\ Len(list) = (IF days <= 0 THEN 0 ELSE days)
        /\ \A i \in 1..Len(list) : list[i].date = (start \div 24) + (i - 1)
        /\ \A i \in 1..Len(list) : \A j \in 1..Len(list) :
             i < j => list[i].date < list[j].date
        /\ \A i \in 1..Len(list) : \A j \in 1..Len(list) :
             detected[i].sky = detected[j].sky
               => /\ list[i].events = list[j].events
                  /\ list[i].priors = list[j].priors

\* C21: compute_timing_window terminates for every day count and returns
\* exactly `days` entries (none when days <= 0), entry i dated start date
\* plus i days in increasing order, each computed from the transit snapshot
\* of its own day whatever the other days are.
C21_WindowTerminates == []WindowShape /\ [](natal # <<>> => <>(window # <<>>))

\* a two-day window starting at 23:00 on day 1, dated days 1 and 2, the two
\* days under different skies
C21_Witness ==
  /\ window # <<>>
  /\ days = 2
  /\ start % 24 # 0
  /\ Len(window[1].days) = 2
  /\ window[1].days[1].date = start \div 24
  /\ window[1].days[2].date = (start \div 24) + 1
  /\ detected[1].sky # detected[2].sky
  /\ window[1].days[1].events # window[1].days[2].events

\* ------------------------------------------------------------------------
\* Timing window: the two tiers overlap
\* ------------------------------------------------------------------------
Contact(e) == <<e.transit, e.natal, e.aspect>>

Occurrences(list, c) == Cardinality({k \in 1..Len(list) : Contact(list[k]) = c})

\* C29: with the tight orb not larger than the medium orb, every tight-tier
\* event of a day is also detected as a medium-tier event of the same
\* contact, with the same orb and a strength at least as large; in a day
\* list that is not truncated each such contact occurs twice, and the
\* accumulators behind the priors hold the tight list and the medium list
\* added up.
C29_TightWithinMedium ==
  settings.timing_orb_tight <= settings.timing_orb_medium =>
    \A d \in 1..Len(out) :
      LET tight == TierOf(detected[d].events, "tight")
          medium == TierOf(detected[d].events, "medium")
          both(f) == RAdd(ClaimedAccumulators(tight)[f],
                          ClaimedAccumulators(medium)[f])
      IN  /\ \A k \in 1..Len(tight) :
               \E m \in 1..Len(medium) :
                 /\ Contact(medium[m]) = Contact(tight[k])
                 /\ medium[m].orb = tight[k].orb
                 /\ RLe(tight[k].strength, medium[m].strength)
          /\ Len(detected[d].events) <= EventLimit =>
               /\ \A k \in 1..Len(tight) :
                    Occurrences(out[d].events, Contact(tight[k])) = 2
               /\ \A f \in {"BIS", "BAS", "FFFS"} :
                    out[d].priors[f] = squash(both(f))

\* a day that is not truncated and holds a tight Saturn contact: it is in the
\* list twice, the medium copy strictly stronger
C29_Witness ==
  \E d \in 1..Len(out) :
    /\ Len(detected[d].events) <= EventLimit
    /\ \E k \in 1..Len(out[d].events) : \E m \in 1..Len(out[d].events) :
         /\ out[d].events[k].tier = "tight"
         /\ out[d].events[m].tier = "medium"
         /\ out[d].events[k].transit = "Saturn"
         /\ Contact(out[d].events[k]) = Contact(out[d].events[m])
         /\ RLt(out[d].events[k].strength, out[d].events[m].strength)
    /\ out[d].priors["BIS"] # squash(Zero)

\* ------------------------------------------------------------------------
\* compute_bowen before annotate_edges
\* ------------------------------------------------------------------------
\* the ids the caller mentioned: listed nodes and edge endpoints
MentionedIds ==
  {graphIn.nodes[k].person_id : k \in 1..Len(graphIn.nodes)}
    \cup {graphIn.edges[k].from : k \in 1..Len(graphIn.edges)}
    \cup {graphIn.edges[k].to : k \in 1..Len(graphIn.edges)}

EndpointOnlyIds ==
  MentionedIds \ {graphIn.nodes[k].person_id : k \in 1..Len(graphIn.nodes)}

\* C28: on a graph from build_graph that annotate_edges has not visited (no
\* edge carries a conflict_risk) every triangle risk is 0 and the triangles
\* list is empty whatever the topology, while differentiation_proxy has one
\* entry for every node, nodes introduced only as edge endpoints included.
C28_BowenNeedsAnnotation ==
  (bowen # <<>> /\ ~annotated) =>
    /\ \A e \in G[1].edges : G[1].risk[e] = None
    /\ \A T \in ClosedTriples :
         \A a \in T : \A b \in T \ {a} : \A c \in T \ {a, b} :
           triangle_risk(G[1], a, b, c) = Zero
    /\ bowen[1].triangles = <<>>
    /\ DOMAIN bowen[1].differentiation_proxy = MentionedIds

\* compute_bowen ran on a graph that was not annotated, holding a closed
\* triangle and a node known only as an edge endpoint
C28_Witness ==
  /\ bowen # <<>>
  /\ ~annotated
  /\ ClosedTriples # {}
  /\ EndpointOnlyIds # {}
  /\ bowen[1].triangles = <<>>
  /\ \E n \in EndpointOnlyIds : n \in DOMAIN bowen[1].differentiation_proxy

\* ------------------------------------------------------------------------
\* Updates of the default model
\* ------------------------------------------------------------------------
\* the weights update_state_model_after_checkin reads from a model
WeightsRead(m) ==
  <<Get(m.w_user, R(60, 100)), Get(m.w_timing, R(20, 100)),
    Get(m.w_context, R(20, 100))>>

\* the default model, or a model an update of such a model returned
OnDefaultLine(w) ==
  /\ w[3] = R(20, 100)
  /\ w[1] = RSub(R(80, 100), w[2])
  /\ RLe(R(5, 100), w[2]) /\ RLe(w[2], MaxTimingWeight)

IsCall(fn) == IF ret = <<>> THEN FALSE ELSE ret[1].fn = fn

\* the lines of the log a reader asked for
Matching(user_id, kinds) ==
  {k \in 1..Len(log) :
     /\ log[k].user_id = user_id
     /\ (kinds = {} \/ log[k].event.kind \in kinds)}

\* how often the pages show the record of a line
Visits(pages, line) ==
  Cardinality({pi \in {<<p, i>> : p \in 1..Len(pages), i \in 1..MaxLog} :
                 /\ pi[2] <= Len(pages[pi[1]])
                 /\ pages[pi[1]][pi[2]].line = line})

AllVisited(pages, user_id, kinds) ==
  \A k \in Matching(user_id, kinds) : Visits(pages, k) = 1

\* C22: a reader that follows next_cursor until it is None has seen every
\* record of the user that matches the kind filter exactly once: none on two
\* pages, none skipped, and the cursor is None on the page that exhausts them.
C22_CursorVisitsEachOnce ==
  IsCall("query_spiral") =>
    /\ \A k \in 1..Len(log) : Visits(ret[1].pages, k) <= 1
    /\ ret[1].cursor = <<>> => AllVisited(ret[1].pages, ret[1].user_id, ret[1].kinds)
    /\ AllVisited(ret[1].pages, ret[1].user_id, ret[1].kinds) => ret[1].cursor = <<>>

\* the same for page sizes of at least 1 and without the demand on the last
\* page: no record is skipped
C22_NoneSkipped ==
  (IsCall("query_spiral") /\ ret[1].limit >= 1 /\ ret[1].cursor = <<>>) =>
    AllVisited(ret[1].pages, ret[1].user_id, ret[1].kinds)

\* for page sizes of at least 1: the page that exhausts the records returns
\* no cursor
C22_LastPageHasNoCursor ==
  (IsCall("query_spiral") /\ ret[1].limit >= 1
     /\ AllVisited(ret[1].pages, ret[1].user_id, ret[1].kinds)) =>
    ret[1].cursor = <<>>

PageWellFormed(page, user_id, kinds, limit) ==
  /\ Len(page) <= limit
  /\ \A i \in 1..Len(page) :
       /\ page[i].user_id = user_id
       /\ kinds # {} => page[i].event.kind \in kinds
  /\ \A i \in 1..(Len(page) - 1) : page[i].ts >= page[i + 1].ts

C23_PositiveLimit ==
  (IsCall("query_spiral") /\ ret[1].limit >= 1) =>
    \A p \in 1..Len(ret[1].pages) :
      PageWellFormed(ret[1].pages[p], ret[1].user_id, ret[1].kinds, ret[1].limit)

\* C24: append_spiral_event stores an event only when its kind is in
\* KNOWN_EVENT_KINDS; for any other event it raises ValueError and leaves the
\* log as it was, so every record of the log carries a known kind; an
\* accepted append adds exactly one record at the end and changes no earlier
\* record.
C24_OnlyKnownKindsStored ==
  /\ \A k \in 1..Len(log) : log[k].event.kind \in KNOWN_EVENT_KINDS
  /\ IsCall("append_spiral_event") =>
       IF ret[1].event.kind \in KNOWN_EVENT_KINDS
       THEN /\ ~ret[1].raised
            /\ Len(log) = Len(ret[1].before) + 1
            /\ SubSeq(log, 1, Len(ret[1].before)) = ret[1].before
            /\ log[Len(log)].user_id = ret[1].user_id
            /\ log[Len(log)].event = ret[1].event
       ELSE /\ ret[1].raised
            /\ log = ret[1].before

\* the same where the event has a non-empty kind
C24_EventsWithAKind ==
  (IsCall("append_spiral_event") /\ Truthy(ret[1].event.kind)) =>
    IF ret[1].event.kind \in KNOWN_EVENT_KINDS
    THEN /\ ~ret[1].raised
         /\ Len(log) = Len(ret[1].before) + 1
         /\ SubSeq(log, 1, Len(ret[1].before)) = ret[1].before
         /\ log[Len(log)].event = ret[1].event
    ELSE /\ ret[1].raised
         /\ log = ret[1].before

\* the lines of the user's accepted and declined proposals of an action
OutcomeLines(user_id, action) ==
  {k \in 1..Len(log) :
     /\ log[k].user_id = user_id
     /\ log[k].event.action = action
     /\ log[k].event.kind \in {"proposal_accepted", "proposal_declined"}}

\* the most recent lookback of them
RecentOutcomes(user_id, action, lookback) ==
  {k \in OutcomeLines(user_id, action) :
     Cardinality({j \in OutcomeLines(user_id, action) : j > k}) < lookback}

CountsRecent(c) ==
  /\ c.result.accepts =
       Cardinality({k \in RecentOutcomes(c.user_id, c.action, c.lookback) :
                      log[k].event.kind = "proposal_accepted"})
  /\ c.result.declines =
       Cardinality({k \in RecentOutcomes(c.user_id, c.action, c.lookback) :
                      log[k].event.kind = "proposal_declined"})
  /\ c.result.total = c.result.accepts + c.result.declines
  /\ c.result.total <= c.lookback

C25_PositiveLookback ==
  (IsCall("count_proposal_outcomes") /\ ret[1].lookback >= 1) => CountsRecent(ret[1])

\* ------------------------------------------------------------------------
\* Agent session: properties
\* ------------------------------------------------------------------------
\* the user's recorded outcomes of schedule_prompt proposals
Recorded(kind) ==
  Cardinality({k \in 1..Len(log) :
                 /\ log[k].user_id = SessionUser
                 /\ log[k].event.kind = kind
                 /\ log[k].event.action = "schedule_prompt"})

\* build_action_proposals has run past its horizon computation
HorizonComputed == IF sess = <<>> THEN FALSE ELSE sess[1].horizon_hours # 0

\* C26: build_action_proposals reduces the schedule horizon to 2 hours
\* exactly when the user's recorded declines of schedule_prompt exceed twice
\* the recorded accepts.
C26_ReducedWhenDeclinesExceedTwiceAccepts ==
  HorizonComputed =>
    (sess[1].horizon_hours = 2
       <=> Recorded("proposal_declined") > 2 * Recorded("proposal_accepted"))

\* what the code computes: 2 hours when declines exceed accepts, 8 hours when
\* accepts exceed declines, 6 hours otherwise
HorizonAsCoded ==
  HorizonComputed =>
    sess[1].horizon_hours =
      IF Recorded("proposal_declined") > Recorded("proposal_accepted") THEN 2
      ELSE IF Recorded("proposal_accepted") > Recorded("proposal_declined") THEN 8
      ELSE 6

IsEvent(e, name) == e.event = name

Emitted(name) ==
  IF sess = <<>> THEN FALSE
  ELSE \E i \in 1..Len(sess[1].events) : IsEvent(sess[1].events[i], name)

\* the proposals of the action_proposal events streamed so far
Streamed ==
  LET is_proposal(e) == IsEvent(e, "action_proposal")
      sent == SelectSeq(sess[1].events, is_proposal)
  IN  [i \in 1..Len(sent) |-> sent[i].data[1]]

ProposalsBuilt == At("proposing") \/ Emitted("final")

\* C30: at every pass level build_action_proposals returns only actions of
\* allowed_action_names(pass_level), each action at most once, and
\* schedule_prompt only at ACTIVE; so the allowlist filter of the stream drops
\* nothing, the proposals logged in the proposals_offered event are exactly
\* the action_proposal events streamed, and these come after narration_end
\* and before final.
C30_StreamedAreLoggedAndAllowed ==
  ProposalsBuilt =>
    /\ \A i \in 1..Len(sess[1].proposals) :
         /\ InSeq(sess[1].proposals[i].action,
                  allowed_action_names(sess[1].result.pass_level))
         /\ \A j \in 1..Len(sess[1].proposals) :
              sess[1].proposals[j].action = sess[1].proposals[i].action => j = i
         /\ sess[1].proposals[i].action = "schedule_prompt" =>
              sess[1].result.pass_level = "ACTIVE"
    /\ Streamed = SubSeq(sess[1].proposals, 1, sess[1].next - 1)
    /\ Emitted("final") => Streamed = sess[1].proposals
    /\ sess[1].logged =>
         /\ log[Len(log)].event.kind = "proposals_offered"
         /\ log[Len(log)].event.proposals = sess[1].proposals
    /\ \A i \in 1..Len(sess[1].events) :
         IsEvent(sess[1].events[i], "action_proposal") =>
           /\ \E j \in 1..(i - 1) : IsEvent(sess[1].events[j], "narration_end")
           /\ \A j \in 1..(i - 1) : ~IsEvent(sess[1].events[j], "final")

\* an ACTIVE session has streamed its logged proposals, a schedule_prompt
\* among them, and has ended with final
C30_Witness ==
  /\ Emitted("final")
  /\ sess[1].logged
  /\ sess[1].result.pass_level = "ACTIVE"
  /\ Len(Streamed) = Len(BaseProposals) + 1
  /\ Streamed[Len(Streamed)].action = "schedule_prompt"
  /\ log[Len(log)].event.proposals = Streamed

====
